---------------------------- MODULE Spec2Model ----------------------------
(***************************************************************************)
(* Relevance ranking of code-context (package relevance) and the Gemini    *)
(* embedding adapter's retry loop.                                         *)
(*                                                                         *)
(* Go strings are modelled as sequences of one-character strings, so that  *)
(* strings.ToLower, strings.Fields, strings.Contains, ... are computed and *)
(* not assumed.  float64 scores are modelled as exact rationals <<n, d>>   *)
(* in lowest terms with d > 0.                                             *)
(*                                                                         *)
(* The repository holds two generations of the embedding code:             *)
(*   variant "adapter": IdentifyRelevantFilesWith... of unnamed/part_007   *)
(*                      (EmbeddingAdapter + NewEmbeddingProvider),         *)
(*   variant "legacy" : the same entry points of                           *)
(*                      internal/relevance/embedding.go (getEmbedding).    *)
(* Keyword-only ranking (relevance.go) is shared by both.                  *)
(***************************************************************************)
EXTENDS Integers, Sequences, FiniteSets, TLC

(***************************************************************************)
(* Strings                                                                 *)
(***************************************************************************)
UpperLetters == <<"A", "B", "C", "D", "E", "F", "G", "H", "I", "J", "K", "L", "M",
                  "N", "O", "P", "Q", "R", "S", "T", "U", "V", "W", "X", "Y", "Z">>

LowerLetters == <<"a", "b", "c", "d", "e", "f", "g", "h", "i", "j", "k", "l", "m",
                  "n", "o", "p", "q", "r", "s", "t", "u", "v", "w", "x", "y", "z">>

\* unicode.ToLower on one rune
ToLowerRune(c) ==
    IF \E k \in 1..Len(UpperLetters) : UpperLetters[k] = c
    THEN LowerLetters[CHOOSE k \in 1..Len(UpperLetters) : UpperLetters[k] = c]
    ELSE c

\* strings.ToLower
RECURSIVE ToLower(_)
ToLower(s) ==
    IF s = <<>> THEN <<>> ELSE <<ToLowerRune(s[1])>> \o ToLower(Tail(s))

\* strings.Contains: the empty substring is contained in every string
Contains(s, sub) ==
    \E k \in 0..(Len(s) - Len(sub)) : SubSeq(s, k + 1, k + Len(sub)) = sub

\* strings.HasSuffix
HasSuffix(s, suf) ==
    /\ Len(suf) <= Len(s)
    /\ SubSeq(s, Len(s) - Len(suf) + 1, Len(s)) = suf

\* unicode.IsSpace, for the characters of the modelled alphabet
IsSpace(c) == c \in {" ", "\t", "\n"}

\* unicode.IsPunct: the ASCII characters of category P.  The ASCII symbols
\* $ + < = > ^ ` | ~ are category S and are not punctuation.
IsPunct(c) ==
    c \in {"!", "\"", "#", "%", "&", "'", "(", ")", "*", ",", "-", ".", "/",
           ":", ";", "?", "@", "[", "\\", "]", "_", "{", "}"}

\* Characters of the alphabet whose UTF-8 encoding has two bytes
TwoByteRunes == {"e_acute", "u_umlaut"}

\* len(string) in Go counts bytes
RECURSIVE ByteLen(_)
ByteLen(s) ==
    IF s = <<>> THEN 0
    ELSE (IF s[1] \in TwoByteRunes THEN 2 ELSE 1) + ByteLen(Tail(s))

\* strings.Fields: split around runs of white space, no empty fields
RECURSIVE FieldsFrom(_, _, _)
FieldsFrom(s, cur, acc) ==
    IF s = <<>>
    THEN (IF cur = <<>> THEN acc ELSE Append(acc, cur))
    ELSE IF IsSpace(s[1])
         THEN FieldsFrom(Tail(s), <<>>, IF cur = <<>> THEN acc ELSE Append(acc, cur))
         ELSE FieldsFrom(Tail(s), Append(cur, s[1]), acc)

Fields(s) == FieldsFrom(s, <<>>, <<>>)

\* strings.Split(s, sep) for a one-character separator: empty parts are kept
RECURSIVE SplitFrom(_, _, _, _)
SplitFrom(s, sep, cur, acc) ==
    IF s = <<>>
    THEN Append(acc, cur)
    ELSE IF s[1] = sep
         THEN SplitFrom(Tail(s), sep, <<>>, Append(acc, cur))
         ELSE SplitFrom(Tail(s), sep, Append(cur, s[1]), acc)

Split(s, sep) == SplitFrom(s, sep, <<>>, <<>>)

\* strings.Map(f, s) with f dropping the runes that satisfy unicode.IsPunct
RECURSIVE StripPunct(_)
StripPunct(s) ==
    IF s = <<>> THEN <<>>
    ELSE IF IsPunct(s[1]) THEN StripPunct(Tail(s))
         ELSE <<s[1]>> \o StripPunct(Tail(s))

\* filepath.Base with "/" as the separator
RECURSIVE TrimTrailingSlashes(_)
TrimTrailingSlashes(s) ==
    IF s # <<>> /\ s[Len(s)] = "/"
    THEN TrimTrailingSlashes(SubSeq(s, 1, Len(s) - 1))
    ELSE s

Base(path) ==
    IF path = <<>> THEN <<".">>
    ELSE LET t == TrimTrailingSlashes(path)
         IN  IF t = <<>> THEN <<"/">>
             ELSE LET parts == Split(t, "/") IN parts[Len(parts)]

(***************************************************************************)
(* float64 values as exact rationals                                       *)
(***************************************************************************)
Abs(n) == IF n < 0 THEN -n ELSE n

RECURSIVE GCD(_, _)
GCD(a, b) == IF b = 0 THEN a ELSE GCD(b, a % b)

Rat(n, d) ==
    LET g == GCD(Abs(n), Abs(d))
        s == IF d < 0 THEN -1 ELSE 1
    IN  <<(s * n) \div g, (s * d) \div g>>

RZero == <<0, 1>>
ROne == <<1, 1>>
RInt(n) == <<n, 1>>
RAdd(a, b) == Rat(a[1] * b[2] + b[1] * a[2], a[2] * b[2])
RMul(a, b) == Rat(a[1] * b[1], a[2] * b[2])
RDiv(a, b) == Rat(a[1] * b[2], a[2] * b[1])
RLess(a, b) == a[1] * b[2] < b[1] * a[2]
RPos(a) == a[1] > 0

\* math.Sqrt, exact on the rationals whose numerator and denominator are
\* perfect squares (the embedding vectors of the model have integral norms)
ISqrt(n) == CHOOSE r \in 0..n : r * r = n
RSqrt(a) == <<ISqrt(a[1]), ISqrt(a[2])>>


(***************************************************************************)
(* Bounds of the model                                                     *)
(***************************************************************************)
\* longest candidate list handed to a ranking entry point
MaxCandidates == 2

\* largest explicit MaxFilesToCheck handed to a ranking entry point
MaxCap == 1

(***************************************************************************)
(* relevance.go: keyword extraction and the lexical scorer                 *)
(***************************************************************************)
commonWords ==
    { <<"t", "h", "e">>, <<"a", "n", "d">>, <<"f", "o", "r">>,
      <<"t", "h", "i", "s">>, <<"t", "h", "a", "t">>, <<"a", "r", "e">>,
      <<"w", "i", "t", "h">>, <<"w", "h", "a", "t">>, <<"f", "r", "o", "m">>,
      <<"h", "o", "w">>, <<"w", "h", "e", "r", "e">>, <<"w", "h", "e", "n">>,
      <<"w", "h", "o">>, <<"w", "h", "y">>, <<"w", "h", "i", "c", "h">> }

isCommonWord(word) == word \in commonWords

\* the loop of extractKeywords over the fields of the lowercased query
RECURSIVE extractKeywordsFrom(_, _)
extractKeywordsFrom(words, keywords) ==
    IF words = <<>> THEN keywords
    ELSE LET word == StripPunct(words[1])
         IN  IF ByteLen(word) < 3 THEN extractKeywordsFrom(Tail(words), keywords)
             ELSE IF isCommonWord(word) THEN extractKeywordsFrom(Tail(words), keywords)
             ELSE extractKeywordsFrom(Tail(words), Append(keywords, word))

extractKeywords(query) == extractKeywordsFrom(Fields(ToLower(query)), <<>>)

\* scoreFile stops after the line on which lineNum > ScoreLineCap
ScoreLineCap == 1000

\* a weight that does not fall with the line number
MutLineWeightFlat(lineNum) == RInt(10)

\* 1.0 / (0.1 + float64(lineNum)/100.0)
LineWeight(lineNum) == RDiv(ROne, RAdd(Rat(1, 10), Rat(lineNum, 100)))

\* the inner loop of scoreFile: one line against every keyword
RECURSIVE ScoreLine(_, _, _, _)
ScoreLine(line, lineNum, keywords, score) ==
    IF keywords = <<>> THEN score
    ELSE ScoreLine(line, lineNum, Tail(keywords),
                   IF Contains(line, keywords[1])
                   THEN RAdd(score, LineWeight(lineNum))
                   ELSE score)

\* One iteration of the scanner loop of scoreFile, from the loop state st.
\* file.badLine = n > 0 means that the n-th call of scanner.Scan fails
\* (scanner.Err() # nil); 0 means no such line.  done: the loop has ended,
\* by the end of the file, by the failure, or by the break that follows the
\* scoring of the line.
ScanLine(file, keywords, st) ==
    IF file.badLine = st.lineNum + 1
    THEN [done |-> TRUE, lineNum |-> st.lineNum, score |-> RZero, err |-> "scan"]
    ELSE IF st.lineNum + 1 > Len(file.lines)
    THEN [done |-> TRUE, lineNum |-> st.lineNum, score |-> st.score, err |-> "nil"]
    ELSE LET n == st.lineNum + 1
             s == ScoreLine(ToLower(file.lines[n]), n, keywords, st.score)
         IN  [done |-> n > ScoreLineCap, lineNum |-> n, score |-> s, err |-> "nil"]

\* count iterations of the loop, in order, stopping where the loop ends
RECURSIVE ScanLines(_, _, _, _)
ScanLines(file, keywords, st, count) ==
    IF count = 1 THEN ScanLine(file, keywords, st)
    ELSE LET half == count \div 2
             r == ScanLines(file, keywords, st, half)
         IN  IF r.done THEN r ELSE ScanLines(file, keywords, r, count - half)

\* the scanner loop of scoreFile: it ends within ScoreLineCap + 2 iterations,
\* the last of which finds the end of the file
ScoreScan(file, keywords, lineNum, score) ==
    LET r == ScanLines(file, keywords,
                       [done |-> FALSE, lineNum |-> lineNum, score |-> score,
                        err |-> "nil"],
                       ScoreLineCap + 2)
    IN  [score |-> r.score, err |-> r.err]

\* scoreFile(filePath, keywords) on the file found at filePath
scoreFile(file, keywords) ==
    IF file.stat = "err" \/ file.open = "err"
    THEN [score |-> RZero, err |-> "open"]
    ELSE ScoreScan(file, keywords, 0, RZero)

\* sortFilesByScore: the hand-written exchange sort
Swap(files, i, j) == [files EXCEPT ![i] = files[j], ![j] = files[i]]

\* the comparison of the exchange sort turned around
MutSortLessAscending(a, b) == RLess(b.Score, a.Score)

\* "if files[i].Score < files[j].Score"
sortLess(a, b) == RLess(a.Score, b.Score)

RECURSIVE sortInner(_, _, _)
sortInner(files, i, j) ==
    IF j > Len(files) THEN files
    ELSE sortInner(IF sortLess(files[i], files[j]) THEN Swap(files, i, j) ELSE files,
                   i, j + 1)

RECURSIVE sortOuter(_, _)
sortOuter(files, i) ==
    IF i > Len(files) THEN files
    ELSE sortOuter(sortInner(files, i, i + 1), i + 1)

sortFilesByScore(files) == sortOuter(files, 1)

\* a truncation that keeps one entry more than the cap
MutTruncateOffByOne(files, maxFiles) ==
    LET m == IF maxFiles + 1 > Len(files) THEN Len(files) ELSE maxFiles + 1
    IN  SubSeq(files, 1, m)

\* scoredFiles[:maxFiles] after "if maxFiles > len(scoredFiles)"
Truncate(files, maxFiles) ==
    LET m == IF maxFiles > Len(files) THEN Len(files) ELSE maxFiles
    IN  SubSeq(files, 1, m)

\* DefaultOptions().MaxFilesToCheck and DefaultEmbeddingOptions().MaxFilesToCheck
DefaultMaxFilesToCheck == 20

\* "if opts.MaxFilesToCheck <= 0 { opts.MaxFilesToCheck = default }"
ApplyMaxDefault(maxFiles) ==
    IF maxFiles <= 0 THEN DefaultMaxFilesToCheck ELSE maxFiles

(***************************************************************************)
(* Embedding helpers: unnamed/part_007 (adapter) and embedding.go (legacy) *)
(***************************************************************************)
\* the accumulation loop shared by both cosineSimilarity functions
RECURSIVE DotFrom(_, _, _)
DotFrom(a, b, i) ==
    IF i > Len(a) THEN 0 ELSE a[i] * b[i] + DotFrom(a, b, i + 1)

\* a similarity that compares the leading components of vectors of
\* different lengths
MutCosineSimilarityPrefix(a, b) ==
    LET n == IF Len(a) < Len(b) THEN Len(a) ELSE Len(b)
        pa == SubSeq(a, 1, n)
        pb == SubSeq(b, 1, n)
        magnitudeA == DotFrom(pa, pa, 1)
        magnitudeB == DotFrom(pb, pb, 1)
    IN  IF magnitudeA = 0 \/ magnitudeB = 0 THEN RZero
        ELSE RDiv(RInt(DotFrom(pa, pb, 1)),
                  RMul(RSqrt(RInt(magnitudeA)), RSqrt(RInt(magnitudeB))))

\* cosineSimilarity of unnamed/part_007
cosineSimilarity(a, b) ==
    IF Len(a) # Len(b) THEN RZero
    ELSE LET dotProduct == DotFrom(a, b, 1)
             magnitudeA == DotFrom(a, a, 1)
             magnitudeB == DotFrom(b, b, 1)
         IN  IF magnitudeA = 0 \/ magnitudeB = 0 THEN RZero
             ELSE LET sqrtA == RSqrt(RInt(magnitudeA))
                      sqrtB == RSqrt(RInt(magnitudeB))
                  IN  IF sqrtA = RZero \/ sqrtB = RZero THEN RZero
                      ELSE RDiv(RInt(dotProduct), RMul(sqrtA, sqrtB))

\* cosineSimilarity of internal/relevance/embedding.go: no square roots
cosineSimilarityLegacy(a, b) ==
    IF Len(a) # Len(b) THEN RZero
    ELSE LET dotProduct == DotFrom(a, b, 1)
             magnitudeA == DotFrom(a, a, 1)
             magnitudeB == DotFrom(b, b, 1)
         IN  IF magnitudeA = 0 \/ magnitudeB = 0 THEN RZero
             ELSE RDiv(RInt(dotProduct), RInt(magnitudeA * magnitudeB))

\* containsAny(s, substrings)
containsAny(s, substrings) == \E sub \in substrings : Contains(s, sub)

\* getPathRelevanceScore of unnamed/part_007: keyword-driven, not capped
RECURSIVE getPathRelevanceScoreFrom(_, _, _)
getPathRelevanceScoreFrom(filePath, keywords, score) ==
    IF keywords = <<>> THEN score
    ELSE LET keyword == keywords[1]
             inPath == containsAny(ToLower(filePath), {keyword})
             inBase == containsAny(ToLower(Base(filePath)), {keyword})
             s1 == IF inPath THEN RAdd(score, Rat(5, 10)) ELSE score
             s2 == IF inPath /\ inBase THEN RAdd(s1, Rat(5, 10)) ELSE s1
         IN  getPathRelevanceScoreFrom(filePath, Tail(keywords), s2)

getPathRelevanceScore(filePath, keywords) ==
    getPathRelevanceScoreFrom(filePath, keywords, RZero)

\* the extension/topic pairs of the legacy getPathRelevanceScore, in the
\* order of its if / else-if chain
ExtensionTopics ==
    << [ext |-> <<".", "g", "o">>,
        topics |-> {<<"g", "o">>, <<"g", "o", "l", "a", "n", "g">>}],
       [ext |-> <<".", "j", "a", "v", "a">>,
        topics |-> {<<"j", "a", "v", "a">>, <<"s", "p", "r", "i", "n", "g">>}],
       [ext |-> <<".", "p", "y">>,
        topics |-> {<<"p", "y", "t", "h", "o", "n">>, <<"d", "j", "a", "n", "g", "o">>}],
       [ext |-> <<".", "j", "s">>,
        topics |-> {<<"j", "a", "v", "a", "s", "c", "r", "i", "p", "t">>,
                    <<"n", "o", "d", "e", "j", "s">>}],
       [ext |-> <<".", "t", "s">>,
        topics |-> {<<"t", "y", "p", "e", "s", "c", "r", "i", "p", "t">>,
                    <<"a", "n", "g", "u", "l", "a", "r">>}],
       [ext |-> <<".", "c", "s">>,
        topics |-> {<<"c", "#">>, <<"d", "o", "t", "n", "e", "t">>, <<".", "n", "e", "t">>}],
       [ext |-> <<".", "p", "h", "p">>,
        topics |-> {<<"p", "h", "p">>, <<"l", "a", "r", "a", "v", "e", "l">>}] >>

\* getPathRelevanceScore of internal/relevance/embedding.go: query-driven,
\* capped at 1.0
getPathRelevanceScoreLegacy(path, query) ==
    LET lowerPath == ToLower(path)
        lowerQuery == ToLower(query)
        pathParts == Split(lowerPath, "/")
        partHit == \E k \in 1..Len(pathParts) :
                      \/ Contains(lowerQuery, pathParts[k])
                      \/ Contains(pathParts[k], lowerQuery)
        s1 == IF partHit THEN Rat(3, 10) ELSE RZero
        \* at most one branch of the if / else-if chain adds its 0.2
        extHit == \E k \in 1..Len(ExtensionTopics) :
                     /\ HasSuffix(lowerPath, ExtensionTopics[k].ext)
                     /\ containsAny(lowerQuery, ExtensionTopics[k].topics)
        s2 == IF extHit THEN RAdd(s1, Rat(2, 10)) ELSE s1
        s3 == IF \/ Contains(lowerPath, <<"m", "a", "i", "n", ".">>)
                 \/ Contains(lowerPath, <<"i", "n", "d", "e", "x", ".">>)
              THEN RAdd(s2, Rat(1, 10)) ELSE s2
        s4 == IF \/ Contains(lowerPath, <<"c", "o", "n", "t", "r", "o", "l", "l", "e", "r">>)
                 \/ Contains(lowerPath, <<"s", "e", "r", "v", "i", "c", "e">>)
              THEN RAdd(s3, Rat(1, 10)) ELSE s3
        s5 == IF \/ Contains(lowerPath, <<"a", "p", "i">>)
                 \/ Contains(lowerPath, <<"h", "a", "n", "d", "l", "e", "r">>)
              THEN RAdd(s4, Rat(1, 10)) ELSE s4
    IN  IF RLess(ROne, s5) THEN ROne ELSE s5

\* a factory that falls back to the Ollama adapter for an identifier it
\* does not know
MutNewEmbeddingProviderDefaults(provider) ==
    LET p == ToLower(provider)
    IN  IF p = <<"g", "e", "m", "i", "n", "i">>
        THEN [adapter |-> "gemini", err |-> "nil"]
        ELSE IF p \in {<<"o", "p", "e", "n", "a", "i">>,
                       <<"a", "n", "t", "h", "r", "o", "p", "i", "c">>}
        THEN [adapter |-> "nil", err |-> "not implemented"]
        ELSE [adapter |-> "ollama", err |-> "nil"]

\* NewEmbeddingProvider: the adapter selected for opts.Provider, or an error
NewEmbeddingProvider(provider) ==
    LET p == ToLower(provider)
    IN  IF p \in {<<"o", "l", "l", "a", "m", "a">>, <<"l", "o", "c", "a", "l">>}
        THEN [adapter |-> "ollama", err |-> "nil"]
        ELSE IF p = <<"g", "e", "m", "i", "n", "i">>
        THEN [adapter |-> "gemini", err |-> "nil"]
        ELSE IF p = <<"o", "p", "e", "n", "a", "i">>
        THEN [adapter |-> "nil", err |-> "not implemented"]
        ELSE IF p = <<"a", "n", "t", "h", "r", "o", "p", "i", "c">>
        THEN [adapter |-> "nil", err |-> "not implemented"]
        ELSE [adapter |-> "nil", err |-> "unknown provider"]

\* DefaultEmbeddingOptions().Provider
DefaultProvider == "ollama"

\* "if opts.Provider == "" { opts.Provider = DefaultEmbeddingOptions().Provider }"
ApplyProviderDefault(provider) ==
    IF provider = "" THEN DefaultProvider ELSE provider

\* readFileContent(filePath, maxLines): the first maxLines lines, or an
\* error.  scanner.Scan is called once more than the lines it appends
\* unless the file ends before, so a bad line maxLines + 1 is an error too.
readFileContent(file, maxLines) ==
    IF file.stat = "err" \/ file.open = "err" THEN [content |-> <<>>, err |-> "open"]
    ELSE LET scans == IF Len(file.lines) < maxLines + 1
                      THEN Len(file.lines) + 1 ELSE maxLines + 1
         IN  IF file.badLine \in 1..scans THEN [content |-> <<>>, err |-> "scan"]
             ELSE [content |-> SubSeq(file.lines, 1,
                                      IF Len(file.lines) < maxLines
                                      THEN Len(file.lines) ELSE maxLines),
                   err |-> "nil"]

\* the size limits and line limits of the two embedding strategies
EmbeddingSizeLimit == 1024 * 1024
HybridSizeLimit == 1024 * 1024 * 2
EmbeddingLineLimit == 500
HybridLineLimit == 800

(***************************************************************************)
(* The environment: the files under the target path, the queries, the      *)
(* provider identifiers and the answers of an embedding backend            *)
(***************************************************************************)
\* The Go strings that occur in options and results are written as TLA+
\* strings in the state; this table gives the characters of each.
StringTable ==
    { [text |-> "", chars |-> <<>>],
      [text |-> "go", chars |-> <<"g", "o">>],
      [text |-> "ete_ete.md",
       chars |-> <<"e_acute", "t", "e_acute", "_", "e_acute", "t", "e_acute", ".", "m", "d">>],
      [text |-> "config/parser.go",
       chars |-> <<"c", "o", "n", "f", "i", "g", "/", "p", "a", "r", "s", "e", "r", ".", "g", "o">>],
      [text |-> "api/main.go",
       chars |-> <<"a", "p", "i", "/", "m", "a", "i", "n", ".", "g", "o">>],
      [text |-> "README.md",
       chars |-> <<"R", "E", "A", "D", "M", "E", ".", "m", "d">>],
      [text |-> "big.bin",
       chars |-> <<"b", "i", "g", ".", "b", "i", "n">>],
      [text |-> "gone.go",
       chars |-> <<"g", "o", "n", "e", ".", "g", "o">>],
      [text |-> "lock.go",
       chars |-> <<"l", "o", "c", "k", ".", "g", "o">>],
      [text |-> "parse config",
       chars |-> <<"p", "a", "r", "s", "e", " ", "c", "o", "n", "f", "i", "g">>],
      [text |-> "the Go api!",
       chars |-> <<"t", "h", "e", " ", "G", "o", " ", "a", "p", "i", "!">>],
      [text |-> "how to",
       chars |-> <<"h", "o", "w", " ", "t", "o">>],
      [text |-> "ollama",
       chars |-> <<"o", "l", "l", "a", "m", "a">>],
      [text |-> "local",
       chars |-> <<"l", "o", "c", "a", "l">>],
      [text |-> "Gemini",
       chars |-> <<"G", "e", "m", "i", "n", "i">>],
      [text |-> "openai",
       chars |-> <<"o", "p", "e", "n", "a", "i">>],
      [text |-> "anthropic",
       chars |-> <<"a", "n", "t", "h", "r", "o", "p", "i", "c">>],
      [text |-> "bogus",
       chars |-> <<"b", "o", "g", "u", "s">>] }

Chars(text) == (CHOOSE e \in StringTable : e.text = text).chars

\* stat/open: the result of os.Stat / os.Open; size: FileInfo.Size();
\* badLine: the line on which bufio.Scanner fails (0: none)
FileSystem ==
    { [name |-> "config/parser.go",
       stat |-> "ok", size |-> 40, open |-> "ok", badLine |-> 0,
       lines |-> << <<"P", "a", "r", "s", "e", " ", "c", "o", "n", "f", "i", "g">>, <<"x">> >>],
      [name |-> "api/main.go",
       stat |-> "ok", size |-> EmbeddingSizeLimit, open |-> "ok", badLine |-> 0,
       lines |-> << <<"x">>, <<"p", "a", "r", "s", "e">> >>],
      [name |-> "README.md",
       stat |-> "ok", size |-> HybridSizeLimit, open |-> "ok", badLine |-> 0,
       lines |-> << <<"x">> >>],
      [name |-> "big.bin",
       stat |-> "ok", size |-> HybridSizeLimit + 1, open |-> "ok", badLine |-> 0,
       lines |-> << <<"x">>, <<"x">>, <<"c", "o", "n", "f", "i", "g">> >>],
      [name |-> "gone.go",
       stat |-> "err", size |-> 0, open |-> "err", badLine |-> 0, lines |-> <<>>],
      [name |-> "lock.go",
       stat |-> "ok", size |-> 10, open |-> "err", badLine |-> 0, lines |-> <<>>] }

Paths == {f.name : f \in FileSystem}

FileAt(path) == CHOOSE f \in FileSystem : f.name = path

\* the candidate lists: up to MaxCandidates distinct paths in any order
CandidateLists ==
    UNION { { c \in [1..n -> Paths] : \A i, j \in 1..n : i # j => c[i] # c[j] }
            : n \in 0..MaxCandidates }

Queries == {"parse config", "the Go api!", "how to"}

\* the provider identifiers NewEmbeddingProvider is tried on
ProviderIds == {"", "ollama", "local", "Gemini", "openai", "anthropic", "bogus"}

\* the provider identifiers the ranking entry points are called with: the
\* default, a provider that needs an API key, and an unknown one
RankingProviderIds == {"", "Gemini", "bogus"}

\* the MaxFilesToCheck values a caller passes
CapValues == (-1)..MaxCap

\* what one GenerateEmbedding / getEmbedding call returns: an error, or a
\* vector (isNil: the nil slice of a response without an "embedding" field)
EmbedErr == [err |-> "backend", isNil |-> TRUE, vec |-> <<>>]
EmbedOk(v) == [err |-> "nil", isNil |-> FALSE, vec |-> v]
EmbedNil == [err |-> "nil", isNil |-> TRUE, vec |-> <<>>]

QueryVectors == { <<1, 0>> }
FileVectors == { <<1, 0>>, <<-1, 0>>, <<3, 4>>, <<0, 1>> }

QueryAnswers == {EmbedErr, EmbedNil} \cup {EmbedOk(v) : v \in QueryVectors}
FileAnswers == {EmbedErr} \cup {EmbedOk(v) : v \in FileVectors}

\* the keyword score of the hybrid loop body of embedding.go: the share of
\* the keywords found in the lowercased content (no keyword holds a line
\* break, so a keyword is in the content iff it is in one of its lines)
RECURSIVE LegacyKeywordHits(_, _)
LegacyKeywordHits(content, kws) ==
    IF kws = <<>> THEN 0
    ELSE (IF \E n \in 1..Len(content) : Contains(ToLower(content[n]), ToLower(kws[1]))
          THEN 1 ELSE 0) + LegacyKeywordHits(content, Tail(kws))

LegacyKeywordScore(content, kws) ==
    IF Len(kws) > 0 THEN Rat(LegacyKeywordHits(content, kws), Len(kws)) ELSE RZero

(***************************************************************************)
(* State                                                                   *)
(***************************************************************************)
VARIABLES
    pc,                \* position of the running entry point, "idle" if none
    strategy,          \* "keyword", "embedding" or "hybrid"
    variant,           \* "adapter" (part_007), "legacy" (embedding.go), "none"
    input,             \* the options as the caller passed them
    opts,              \* the options after the defaults were applied
    embeddingProvider, \* "ollama", "gemini" or "nil"
    queryEmbedding,    \* the answer to the query embedding call
    keywords,          \* extractKeywords(Chars(opts.Query))
    idx,               \* index of the next candidate of the range loop
    scoredFiles,       \* the slice the loop appends to
    ret,               \* what the entry point returned
    embedCalls,        \* history: the embedding calls issued, in order
    opened,            \* history: the paths handed to os.Open
    fileLog            \* history: what the loop did with each candidate

rankVars == <<pc, strategy, variant, input, opts, embeddingProvider, queryEmbedding,
              keywords, idx, scoredFiles, ret, embedCalls, opened, fileLog>>

NoOptions ==
    [Provider |-> "", Query |-> "", CandidateFiles |-> <<>>,
     MaxFilesToCheck |-> 0, APIKey |-> ""]

NotReturned == [returned |-> FALSE, files |-> <<>>, err |-> "nil"]
ReturnError(e) == [returned |-> TRUE, files |-> <<>>, err |-> e]
ReturnFiles(files) == [returned |-> TRUE, files |-> files, err |-> "nil"]

FileInfo(path, score) == [Path |-> path, Score |-> score]

LogEntry(path, outcome, emb, kw, rel, score) ==
    [path |-> path, outcome |-> outcome, emb |-> emb, kw |-> kw, rel |-> rel,
     score |-> score]

Skipped(path, outcome) == LogEntry(path, outcome, RZero, RZero, RZero, RZero)

RankInit ==
    /\ pc = "idle"
    /\ strategy = "none"
    /\ variant = "none"
    /\ input = NoOptions
    /\ opts = NoOptions
    /\ embeddingProvider = "nil"
    /\ queryEmbedding = EmbedNil
    /\ keywords = <<>>
    /\ idx = 1
    /\ scoredFiles = <<>>
    /\ ret = NotReturned
    /\ embedCalls = <<>>
    /\ opened = {}
    /\ fileLog = <<>>

\* the options a caller of the keyword-only entry point passes (Options)
KeywordInputs ==
    { [Provider |-> "", Query |-> q, CandidateFiles |-> c,
       MaxFilesToCheck |-> m, APIKey |-> ""]
      : q \in Queries, c \in CandidateLists, m \in CapValues }

\* the options a caller of the adapter entry points passes (EmbeddingOptions
\* of part_007); APIKey is read by the Gemini adapter only
AdapterInputs ==
    { o \in [Provider : RankingProviderIds, Query : Queries,
             CandidateFiles : CandidateLists, MaxFilesToCheck : CapValues,
             APIKey : {"", "key"}]
      : o.APIKey = "key" => ToLower(Chars(o.Provider)) = <<"g", "e", "m", "i", "n", "i">> }

\* the options a caller of the legacy entry points passes (EmbeddingOptions
\* of embedding.go has no Provider and no APIKey)
LegacyInputs == KeywordInputs

\* the embedding-only entry points hand the query to the backend and read
\* it nowhere else: one query stands for all
EmbeddingQueries == {"parse config"}

AdapterEmbeddingInputs == {o \in AdapterInputs : o.Query \in EmbeddingQueries}

LegacyEmbeddingInputs == {o \in LegacyInputs : o.Query \in EmbeddingQueries}

(***************************************************************************)
(* Keyword-only ranking: relevance.go                                      *)
(***************************************************************************)
\* a keyword check that never reports an empty keyword list
MutNoKeywordsIgnored(kws) == FALSE

\* "if len(keywords) == 0"
NoKeywords(kws) == Len(kws) = 0

\* IdentifyRelevantFiles, up to the range loop
IdentifyRelevantFiles(o) ==
    /\ pc = "idle"
    /\ strategy' = "keyword"
    /\ variant' = "none"
    /\ input' = o
    /\ opts' = [o EXCEPT !.MaxFilesToCheck = ApplyMaxDefault(@)]
    /\ keywords' = extractKeywords(Chars(o.Query))
    /\ IF NoKeywords(keywords')
       THEN /\ ret' = ReturnError("no keywords")
            /\ pc' = "done"
       ELSE /\ ret' = ret
            /\ pc' = "loop"
    /\ UNCHANGED <<embeddingProvider, queryEmbedding, idx, scoredFiles, embedCalls,
                   opened, fileLog>>

\* whether the loop of IdentifyRelevantFiles keeps a scored file
KeywordRetain(score) == RPos(score)

\* an iteration whose score variable is not fresh: it starts from the score
\* of the candidate before
MutKeywordScoreCarried ==
    /\ pc = "loop"
    /\ strategy = "keyword"
    /\ idx <= Len(opts.CandidateFiles)
    /\ LET filePath == opts.CandidateFiles[idx]
           r == scoreFile(FileAt(filePath), keywords)
           carried == IF fileLog = <<>> THEN RZero ELSE fileLog[Len(fileLog)].score
           score == RAdd(carried, r.score)
       IN  /\ opened' = opened \cup {filePath}
           /\ IF r.err # "nil"
              THEN /\ fileLog' = Append(fileLog, Skipped(filePath, "score error"))
                   /\ scoredFiles' = scoredFiles
              ELSE /\ fileLog' = Append(fileLog,
                          LogEntry(filePath, "scored", RZero, score, RZero, score))
                   /\ scoredFiles' = IF KeywordRetain(score)
                                     THEN Append(scoredFiles, FileInfo(filePath, score))
                                     ELSE scoredFiles
    /\ idx' = idx + 1
    /\ UNCHANGED <<pc, strategy, variant, input, opts, embeddingProvider,
                   queryEmbedding, keywords, ret, embedCalls>>

\* one iteration of the range loop of IdentifyRelevantFiles
KeywordScoreCandidate ==
    /\ pc = "loop"
    /\ strategy = "keyword"
    /\ idx <= Len(opts.CandidateFiles)
    /\ LET filePath == opts.CandidateFiles[idx]
           r == scoreFile(FileAt(filePath), keywords)
       IN  /\ opened' = opened \cup {filePath}
           /\ IF r.err # "nil"
              THEN /\ fileLog' = Append(fileLog, Skipped(filePath, "score error"))
                   /\ scoredFiles' = scoredFiles
              ELSE /\ fileLog' = Append(fileLog,
                          LogEntry(filePath, "scored", RZero, r.score, RZero, r.score))
                   /\ scoredFiles' = IF KeywordRetain(r.score)
                                     THEN Append(scoredFiles, FileInfo(filePath, r.score))
                                     ELSE scoredFiles
    /\ idx' = idx + 1
    /\ UNCHANGED <<pc, strategy, variant, input, opts, embeddingProvider,
                   queryEmbedding, keywords, ret, embedCalls>>

\* the end of IdentifyRelevantFiles: sort, truncate, return
KeywordReturn ==
    /\ pc = "loop"
    /\ strategy = "keyword"
    /\ idx > Len(opts.CandidateFiles)
    /\ ret' = ReturnFiles(Truncate(sortFilesByScore(scoredFiles), opts.MaxFilesToCheck))
    /\ pc' = "done"
    /\ UNCHANGED <<strategy, variant, input, opts, embeddingProvider, queryEmbedding,
                   keywords, idx, scoredFiles, embedCalls, opened, fileLog>>

(***************************************************************************)
(* Steps shared by the embedding-only and the hybrid entry points          *)
(***************************************************************************)
QueryCall == [kind |-> "query", path |-> "", lines |-> 0]
FileCall(path, content) == [kind |-> "file", path |-> path, lines |-> Len(content)]

\* the answers a GenerateEmbedding call of the adapter can give: the Gemini
\* adapter fails at once without an API key
AdapterAnswers(answers) ==
    IF embeddingProvider = "gemini" /\ opts.APIKey = "" THEN {EmbedErr} ELSE answers

\* the similarity function of the running variant
Similarity(a, b) ==
    IF variant = "legacy" THEN cosineSimilarityLegacy(a, b) ELSE cosineSimilarity(a, b)

\* os.Stat, the size check and readFileContent at the head of the loop body
\* a size test that also skips a file of exactly the limit
MutVisitFileInclusive(filePath, sizeLimit, lineLimit) ==
    LET file == FileAt(filePath)
    IN  IF file.stat = "err" THEN [outcome |-> "stat error", opens |-> FALSE]
        ELSE IF file.size >= sizeLimit THEN [outcome |-> "too large", opens |-> FALSE]
        ELSE IF readFileContent(file, lineLimit).err # "nil"
             THEN [outcome |-> "read error", opens |-> TRUE]
             ELSE [outcome |-> "read", opens |-> TRUE]

VisitFile(filePath, sizeLimit, lineLimit) ==
    LET file == FileAt(filePath)
    IN  IF file.stat = "err" THEN [outcome |-> "stat error", opens |-> FALSE]
        ELSE IF file.size > sizeLimit THEN [outcome |-> "too large", opens |-> FALSE]
        ELSE IF readFileContent(file, lineLimit).err # "nil"
             THEN [outcome |-> "read error", opens |-> TRUE]
             ELSE [outcome |-> "read", opens |-> TRUE]

\* sort.Slice with less(i, j) = Score[i] > Score[j]: not stable, so any
\* descending arrangement of the slice may come out
SortSlice(files) ==
    LET n == Len(files)
        perms == { p \in [1..n -> 1..n] : \A i, j \in 1..n : i # j => p[i] # p[j] }
        arranged == { [k \in 1..n |-> files[p[k]]] : p \in perms }
    IN  { t \in arranged :
            \A i, j \in 1..n : i < j => ~ RLess(t[i].Score, t[j].Score) }

\* the end of the four embedding entry points: sort, truncate, return
EmbeddingReturn ==
    /\ pc = "loop"
    /\ strategy \in {"embedding", "hybrid"}
    /\ idx > Len(opts.CandidateFiles)
    /\ \E sorted \in SortSlice(scoredFiles) :
          ret' = ReturnFiles(Truncate(sorted, opts.MaxFilesToCheck))
    /\ pc' = "done"
    /\ UNCHANGED <<strategy, variant, input, opts, embeddingProvider, queryEmbedding,
                   keywords, idx, scoredFiles, embedCalls, opened, fileLog>>

(***************************************************************************)
(* Embedding-only ranking: part_007 and embedding.go                       *)
(***************************************************************************)
\* "ctx := context.Background()": the context the adapter entry points
\* hand to every GenerateEmbedding call
RankingContext == "background"

\* IdentifyRelevantFilesWithEmbeddings of part_007, up to the query embedding
IdentifyRelevantFilesWithEmbeddings(o) ==
    /\ pc = "idle"
    /\ strategy' = "embedding"
    /\ variant' = "adapter"
    /\ input' = o
    /\ opts' = [o EXCEPT !.MaxFilesToCheck = ApplyMaxDefault(@),
                         !.Provider = ApplyProviderDefault(@)]
    /\ LET p == NewEmbeddingProvider(Chars(opts'.Provider))
       IN  /\ embeddingProvider' = p.adapter
           /\ IF p.err # "nil"
              THEN /\ ret' = ReturnError("creating embedding provider")
                   /\ pc' = "done"
              ELSE /\ ret' = ret
                   /\ pc' = "queryEmbed"
    /\ UNCHANGED <<queryEmbedding, keywords, idx, scoredFiles, embedCalls, opened,
                   fileLog>>

\* IdentifyRelevantFilesWithEmbeddings of embedding.go, up to the query embedding
LegacyIdentifyRelevantFilesWithEmbeddings(o) ==
    /\ pc = "idle"
    /\ strategy' = "embedding"
    /\ variant' = "legacy"
    /\ input' = o
    /\ opts' = [o EXCEPT !.MaxFilesToCheck = ApplyMaxDefault(@)]
    /\ pc' = "queryEmbed"
    /\ UNCHANGED <<embeddingProvider, queryEmbedding, keywords, idx, scoredFiles, ret,
                   embedCalls, opened, fileLog>>

\* the query embedding of both embedding-only entry points: an error is returned
EmbeddingsQueryEmbedding ==
    /\ pc = "queryEmbed"
    /\ strategy = "embedding"
    /\ \E answer \in (IF variant = "adapter" THEN AdapterAnswers(QueryAnswers)
                      ELSE QueryAnswers) :
          /\ queryEmbedding' = answer
          /\ IF answer.err # "nil"
             THEN /\ ret' = ReturnError("getting query embedding")
                  /\ pc' = "done"
             ELSE /\ ret' = ret
                  /\ pc' = "loop"
    /\ embedCalls' = Append(embedCalls, QueryCall)
    /\ UNCHANGED <<strategy, variant, input, opts, embeddingProvider, keywords, idx,
                   scoredFiles, opened, fileLog>>

\* the head of the loop body of both embedding-only entry points
EmbeddingsVisitFile ==
    /\ pc = "loop"
    /\ strategy = "embedding"
    /\ idx <= Len(opts.CandidateFiles)
    /\ LET filePath == opts.CandidateFiles[idx]
           v == VisitFile(filePath, EmbeddingSizeLimit, EmbeddingLineLimit)
       IN  /\ opened' = IF v.opens THEN opened \cup {filePath} ELSE opened
           /\ IF v.outcome = "read"
              THEN /\ pc' = "fileEmbed"
                   /\ UNCHANGED <<idx, fileLog>>
              ELSE /\ pc' = pc
                   /\ idx' = idx + 1
                   /\ fileLog' = Append(fileLog, Skipped(filePath, v.outcome))
    /\ UNCHANGED <<strategy, variant, input, opts, embeddingProvider, queryEmbedding,
                   keywords, scoredFiles, ret, embedCalls>>

\* a retention test that also keeps a score of zero
MutRetainNonNegative(score) == ~ RLess(score, RZero)

\* whether the loops of the embedding entry points keep a scored file
EmbeddingRetain(score) == RPos(score)

\* the file embedding and the scoring of both embedding-only entry points
EmbeddingsEmbedFile ==
    /\ pc = "fileEmbed"
    /\ strategy = "embedding"
    /\ LET filePath == opts.CandidateFiles[idx]
           content == readFileContent(FileAt(filePath), EmbeddingLineLimit).content
       IN  /\ embedCalls' = Append(embedCalls, FileCall(filePath, content))
           /\ \E answer \in (IF variant = "adapter" THEN AdapterAnswers(FileAnswers)
                             ELSE FileAnswers) :
                 IF answer.err # "nil"
                 THEN /\ fileLog' = Append(fileLog, Skipped(filePath, "embedding error"))
                      /\ scoredFiles' = scoredFiles
                 ELSE LET score == Similarity(queryEmbedding.vec, answer.vec)
                      IN  /\ fileLog' = Append(fileLog,
                                 LogEntry(filePath, "scored", score, RZero, RZero, score))
                          /\ scoredFiles' = IF EmbeddingRetain(score)
                                            THEN Append(scoredFiles, FileInfo(filePath, score))
                                            ELSE scoredFiles
    /\ idx' = idx + 1
    /\ pc' = "loop"
    /\ UNCHANGED <<strategy, variant, input, opts, embeddingProvider, queryEmbedding,
                   keywords, ret, opened>>

(***************************************************************************)
(* Hybrid ranking of part_007                                              *)
(***************************************************************************)
\* (embeddingScore * 0.7) + (keywordScore * 0.2) + (pathRelevance * 0.1)
CombinedScore(embeddingScore, keywordScore, pathRelevance) ==
    RAdd(RAdd(RMul(embeddingScore, Rat(7, 10)), RMul(keywordScore, Rat(2, 10))),
         RMul(pathRelevance, Rat(1, 10)))

\* IdentifyRelevantFilesWithHybridApproach of part_007, up to the query
\* embedding; without a provider the query embedding is not attempted
IdentifyRelevantFilesWithHybridApproach(o) ==
    /\ pc = "idle"
    /\ strategy' = "hybrid"
    /\ variant' = "adapter"
    /\ input' = o
    /\ opts' = [o EXCEPT !.MaxFilesToCheck = ApplyMaxDefault(@),
                         !.Provider = ApplyProviderDefault(@)]
    /\ LET p == NewEmbeddingProvider(Chars(opts'.Provider))
       IN  /\ embeddingProvider' = (IF p.err # "nil" THEN "nil" ELSE p.adapter)
           /\ IF p.err # "nil"
              THEN /\ keywords' = extractKeywords(Chars(o.Query))
                   /\ pc' = "loop"
              ELSE /\ keywords' = keywords
                   /\ pc' = "queryEmbed"
    /\ UNCHANGED <<queryEmbedding, idx, scoredFiles, ret, embedCalls, opened, fileLog>>

\* the query embedding of the hybrid entry point of part_007: a failure is
\* a warning, and the keywords are extracted either way
HybridQueryEmbedding ==
    /\ pc = "queryEmbed"
    /\ strategy = "hybrid"
    /\ variant = "adapter"
    /\ \E answer \in AdapterAnswers(QueryAnswers) : queryEmbedding' = answer
    /\ embedCalls' = Append(embedCalls, QueryCall)
    /\ keywords' = extractKeywords(Chars(opts.Query))
    /\ pc' = "loop"
    /\ UNCHANGED <<strategy, variant, input, opts, embeddingProvider, idx, scoredFiles,
                   ret, opened, fileLog>>

\* the keyword score and the path score of the hybrid loop body of
\* part_007, for a file whose content was read; the error of scoreFile is
\* ignored
HybridKeywordScore(filePath) ==
    RDiv(scoreFile(FileAt(filePath), keywords).score, RInt(10))

HybridPathRelevance(filePath) == getPathRelevanceScore(Chars(filePath), keywords)

\* "embeddingProvider != nil && queryEmbedding != nil"
HybridUsesEmbeddings == embeddingProvider # "nil" /\ ~ queryEmbedding.isNil

\* the head of the hybrid loop body of part_007; without embeddings the file
\* is scored in the same iteration with embeddingScore = 0
HybridVisitFile ==
    /\ pc = "loop"
    /\ strategy = "hybrid"
    /\ variant = "adapter"
    /\ idx <= Len(opts.CandidateFiles)
    /\ LET filePath == opts.CandidateFiles[idx]
           v == VisitFile(filePath, HybridSizeLimit, HybridLineLimit)
           keywordScore == HybridKeywordScore(filePath)
           pathRelevance == HybridPathRelevance(filePath)
           combinedScore == CombinedScore(RZero, keywordScore, pathRelevance)
       IN  /\ opened' = IF v.opens THEN opened \cup {filePath} ELSE opened
           /\ IF v.outcome # "read"
              THEN /\ pc' = pc
                   /\ idx' = idx + 1
                   /\ fileLog' = Append(fileLog, Skipped(filePath, v.outcome))
                   /\ scoredFiles' = scoredFiles
              ELSE IF HybridUsesEmbeddings
              THEN /\ pc' = "fileEmbed"
                   /\ UNCHANGED <<idx, fileLog, scoredFiles>>
              ELSE /\ pc' = pc
                   /\ idx' = idx + 1
                   /\ fileLog' = Append(fileLog,
                          LogEntry(filePath, "scored", RZero, keywordScore,
                                   pathRelevance, combinedScore))
                   /\ scoredFiles' = IF EmbeddingRetain(combinedScore)
                                     THEN Append(scoredFiles,
                                                 FileInfo(filePath, combinedScore))
                                     ELSE scoredFiles
    /\ UNCHANGED <<strategy, variant, input, opts, embeddingProvider, queryEmbedding,
                   keywords, ret, embedCalls>>

\* the embedding score of a file whose embedding call gave this answer
HybridEmbeddingScore(answer) ==
    IF answer.err # "nil" THEN RZero
    ELSE cosineSimilarity(queryEmbedding.vec, answer.vec)

\* the file embedding and the scoring of the hybrid loop body of part_007
HybridEmbedFile ==
    /\ pc = "fileEmbed"
    /\ strategy = "hybrid"
    /\ variant = "adapter"
    /\ LET filePath == opts.CandidateFiles[idx]
           content == readFileContent(FileAt(filePath), HybridLineLimit).content
           keywordScore == HybridKeywordScore(filePath)
           pathRelevance == HybridPathRelevance(filePath)
       IN  /\ embedCalls' = Append(embedCalls, FileCall(filePath, content))
           /\ \E answer \in AdapterAnswers(FileAnswers) :
                 LET embeddingScore == HybridEmbeddingScore(answer)
                     combinedScore == CombinedScore(embeddingScore, keywordScore,
                                                    pathRelevance)
                 IN  /\ fileLog' = Append(fileLog,
                            LogEntry(filePath,
                                     IF answer.err # "nil"
                                     THEN "scored without embedding" ELSE "scored",
                                     embeddingScore, keywordScore, pathRelevance,
                                     combinedScore))
                     /\ scoredFiles' = IF EmbeddingRetain(combinedScore)
                                       THEN Append(scoredFiles,
                                                   FileInfo(filePath, combinedScore))
                                       ELSE scoredFiles
    /\ idx' = idx + 1
    /\ pc' = "loop"
    /\ UNCHANGED <<strategy, variant, input, opts, embeddingProvider, queryEmbedding,
                   keywords, ret, opened>>

(***************************************************************************)
(* Hybrid ranking of embedding.go                                          *)
(***************************************************************************)
\* IdentifyRelevantFilesWithHybridApproach of embedding.go, up to the query
\* embedding
LegacyIdentifyRelevantFilesWithHybridApproach(o) ==
    /\ pc = "idle"
    /\ strategy' = "hybrid"
    /\ variant' = "legacy"
    /\ input' = o
    /\ opts' = [o EXCEPT !.MaxFilesToCheck = ApplyMaxDefault(@)]
    /\ pc' = "queryEmbed"
    /\ UNCHANGED <<embeddingProvider, queryEmbedding, keywords, idx, scoredFiles, ret,
                   embedCalls, opened, fileLog>>

\* the query embedding of the hybrid entry point of embedding.go: an error
\* is returned to the caller
LegacyHybridQueryEmbedding ==
    /\ pc = "queryEmbed"
    /\ strategy = "hybrid"
    /\ variant = "legacy"
    /\ \E answer \in QueryAnswers :
          /\ queryEmbedding' = answer
          /\ IF answer.err # "nil"
             THEN /\ ret' = ReturnError("getting query embedding")
                  /\ pc' = "done"
                  /\ keywords' = keywords
             ELSE /\ ret' = ret
                  /\ pc' = "loop"
                  /\ keywords' = extractKeywords(Chars(opts.Query))
    /\ embedCalls' = Append(embedCalls, QueryCall)
    /\ UNCHANGED <<strategy, variant, input, opts, embeddingProvider, idx, scoredFiles,
                   opened, fileLog>>

\* the head of the hybrid loop body of embedding.go
LegacyHybridVisitFile ==
    /\ pc = "loop"
    /\ strategy = "hybrid"
    /\ variant = "legacy"
    /\ idx <= Len(opts.CandidateFiles)
    /\ LET filePath == opts.CandidateFiles[idx]
           v == VisitFile(filePath, HybridSizeLimit, HybridLineLimit)
       IN  /\ opened' = IF v.opens THEN opened \cup {filePath} ELSE opened
           /\ IF v.outcome = "read"
              THEN /\ pc' = "fileEmbed"
                   /\ UNCHANGED <<idx, fileLog>>
              ELSE /\ pc' = pc
                   /\ idx' = idx + 1
                   /\ fileLog' = Append(fileLog, Skipped(filePath, v.outcome))
    /\ UNCHANGED <<strategy, variant, input, opts, embeddingProvider, queryEmbedding,
                   keywords, scoredFiles, ret, embedCalls>>

\* the file embedding and the scoring of the hybrid loop body of
\* embedding.go: a failed file embedding skips the file
LegacyHybridEmbedFile ==
    /\ pc = "fileEmbed"
    /\ strategy = "hybrid"
    /\ variant = "legacy"
    /\ LET filePath == opts.CandidateFiles[idx]
           content == readFileContent(FileAt(filePath), HybridLineLimit).content
           keywordScore == LegacyKeywordScore(content, keywords)
           pathRelevance == getPathRelevanceScoreLegacy(Chars(filePath), Chars(opts.Query))
       IN  /\ embedCalls' = Append(embedCalls, FileCall(filePath, content))
           /\ \E answer \in FileAnswers :
                 IF answer.err # "nil"
                 THEN /\ fileLog' = Append(fileLog, Skipped(filePath, "embedding error"))
                      /\ scoredFiles' = scoredFiles
                 ELSE LET semanticScore == cosineSimilarityLegacy(queryEmbedding.vec,
                                                                  answer.vec)
                          combinedScore == CombinedScore(semanticScore, keywordScore,
                                                         pathRelevance)
                      IN  /\ fileLog' = Append(fileLog,
                                 LogEntry(filePath, "scored", semanticScore, keywordScore,
                                          pathRelevance, combinedScore))
                          /\ scoredFiles' = IF EmbeddingRetain(combinedScore)
                                            THEN Append(scoredFiles,
                                                        FileInfo(filePath, combinedScore))
                                            ELSE scoredFiles
    /\ idx' = idx + 1
    /\ pc' = "loop"
    /\ UNCHANGED <<strategy, variant, input, opts, embeddingProvider, queryEmbedding,
                   keywords, ret, opened>>

(***************************************************************************)
(* NewEmbeddingProvider and sortFilesByScore called on their own           *)
(***************************************************************************)
VARIABLES
    factory,           \* a call of NewEmbeddingProvider: its argument and result
    sortCall,          \* a call of sortFilesByScore: its argument and result
    fnCall             \* a call of another function: its name, arguments, result

pureVars == <<factory, sortCall, fnCall>>

NoFactoryCall == [called |-> FALSE, provider |-> "", adapter |-> "nil", err |-> "nil"]
NoSortCall == [called |-> FALSE, arg |-> <<>>, out |-> <<>>]
NoFnCall == [fn |-> "none"]

PureInit ==
    /\ factory = NoFactoryCall
    /\ sortCall = NoSortCall
    /\ fnCall = NoFnCall

\* one call of NewEmbeddingProvider with opts.Provider = provider
CallNewEmbeddingProvider ==
    /\ pc = "idle"
    /\ \E provider \in ProviderIds :
          LET p == NewEmbeddingProvider(Chars(provider))
          IN  factory' = [called |-> TRUE, provider |-> provider,
                          adapter |-> p.adapter, err |-> p.err]
    /\ pc' = "done"
    /\ UNCHANGED <<strategy, variant, input, opts, embeddingProvider, queryEmbedding,
                   keywords, idx, scoredFiles, ret, embedCalls, opened, fileLog>>
    /\ UNCHANGED <<sortCall, fnCall>>

\* longest slice handed to sortFilesByScore on its own
MaxSortLen == 3

SortScores == {RInt(1), RInt(2), Rat(5, 2)}

\* slices of FileInfo with distinct paths and scores of SortScores
SortInputs ==
    UNION { { [k \in 1..n |-> FileInfo(ToString(k), sc[k])] : sc \in [1..n -> SortScores] }
            : n \in 0..MaxSortLen }

\* one call of sortFilesByScore
CallSortFilesByScore ==
    /\ pc = "idle"
    /\ \E files \in SortInputs :
          sortCall' = [called |-> TRUE, arg |-> files, out |-> sortFilesByScore(files)]
    /\ pc' = "done"
    /\ UNCHANGED <<strategy, variant, input, opts, embeddingProvider, queryEmbedding,
                   keywords, idx, scoredFiles, ret, embedCalls, opened, fileLog>>
    /\ UNCHANGED <<factory, fnCall>>

\* the vectors cosineSimilarity is called on: empty, of one and of two
\* components, of zero magnitude, multiples of one another, orthogonal ones
CosineVectors ==
    { <<>>, <<1>>, <<0, 0>>, <<1, 0>>, <<2, 0>>, <<0, 1>>, <<-1, 0>>,
      <<3, 4>>, <<6, 8>>, <<4, -3>> }

\* one call of cosineSimilarity, of part_007 ("adapter") or of embedding.go
CallCosineSimilarity ==
    /\ pc = "idle"
    /\ \E impl \in {"adapter", "legacy"}, a \in CosineVectors, b \in CosineVectors :
          fnCall' = [fn |-> "cosineSimilarity", impl |-> impl, a |-> a, b |-> b,
                     out |-> IF impl = "adapter" THEN cosineSimilarity(a, b)
                             ELSE cosineSimilarityLegacy(a, b)]
    /\ pc' = "done"
    /\ UNCHANGED <<strategy, variant, input, opts, embeddingProvider, queryEmbedding,
                   keywords, idx, scoredFiles, ret, embedCalls, opened, fileLog>>
    /\ UNCHANGED <<factory, sortCall>>

\* most tokens of a query handed to extractKeywords on its own
MaxQueryTokens == 2

\* the tokens the queries are made of: stop words in both cases, short and
\* long words, words with punctuation and with symbols, and a word of two
\* characters that takes three bytes
QueryTokens ==
    { <<"t", "h", "e">>, <<"T", "h", "e">>,
      <<"g", "o">>, <<"a", "p", "i">>, <<"a", "p", "i", "!">>,
      <<"a", "-", "b">>, <<"c", "+", "+">>,
      <<"e_acute", "a">> }

\* the tokens joined by single spaces
RECURSIVE JoinTokens(_)
JoinTokens(tokens) ==
    IF tokens = <<>> THEN <<>>
    ELSE IF Len(tokens) = 1 THEN tokens[1]
    ELSE tokens[1] \o <<" ">> \o JoinTokens(Tail(tokens))

KeywordQueries ==
    UNION { { JoinTokens(ts) : ts \in [1..n -> QueryTokens] } : n \in 0..MaxQueryTokens }

\* one call of extractKeywords
CallExtractKeywords ==
    /\ pc = "idle"
    /\ \E query \in KeywordQueries :
          fnCall' = [fn |-> "extractKeywords", query |-> query,
                     out |-> extractKeywords(query)]
    /\ pc' = "done"
    /\ UNCHANGED <<strategy, variant, input, opts, embeddingProvider, queryEmbedding,
                   keywords, idx, scoredFiles, ret, embedCalls, opened, fileLog>>
    /\ UNCHANGED <<factory, sortCall>>

\* the files scoreFile is called on by itself: len lines, those of matches
\* holding the keyword twice and in capitals, the others holding none
ScoredFile(len, matches) ==
    [name |-> "scored", stat |-> "ok", size |-> len, open |-> "ok", badLine |-> 0,
     lines |-> [n \in 1..len |-> IF n \in matches
                                 THEN <<"K", "e", "y", "k", "e", "y">>
                                 ELSE <<"x">>]]

\* file lengths and match lines around the line cap of scoreFile
ScoreLengths == {0, 2, ScoreLineCap, ScoreLineCap + 1, ScoreLineCap + 2}
ScoreMatches ==
    { {}, {1}, {2}, {1, 2}, {ScoreLineCap}, {1, ScoreLineCap},
      {ScoreLineCap + 1}, {1, ScoreLineCap + 1}, {ScoreLineCap, ScoreLineCap + 1},
      {ScoreLineCap + 2}, {ScoreLineCap + 1, ScoreLineCap + 2} }

\* keyword lists: one keyword, the same keyword twice, one that matches and
\* one that does not
ScoreKeywords ==
    { << <<"k", "e", "y">> >>,
      << <<"k", "e", "y">>, <<"k", "e", "y">> >>,
      << <<"k", "e", "y">>, <<"z", "z", "z">> >> }

\* one call of scoreFile
CallScoreFile ==
    /\ pc = "idle"
    /\ \E len \in ScoreLengths, kws \in ScoreKeywords :
          \E matches \in {m \in ScoreMatches : m \subseteq 1..len} :
             fnCall' = [fn |-> "scoreFile", len |-> len, matches |-> matches,
                        keywords |-> kws,
                        out |-> scoreFile(ScoredFile(len, matches), kws)]
    /\ pc' = "done"
    /\ UNCHANGED <<strategy, variant, input, opts, embeddingProvider, queryEmbedding,
                   keywords, idx, scoredFiles, ret, embedCalls, opened, fileLog>>
    /\ UNCHANGED <<factory, sortCall>>

\* a test that also replaces the keyword held by one of equal length
MutLongerOrEqual(kw, longestKeyword) == ByteLen(kw) >= ByteLen(longestKeyword)

\* "len(kw) > len(longestKeyword)"
Longer(kw, longestKeyword) == ByteLen(kw) > ByteLen(longestKeyword)

\* the loop of ExtractQueryKeyword over the keywords
RECURSIVE LongestFrom(_, _)
LongestFrom(kws, longestKeyword) ==
    IF kws = <<>> THEN longestKeyword
    ELSE LongestFrom(Tail(kws),
                     IF Longer(kws[1], longestKeyword) THEN kws[1] ELSE longestKeyword)

\* ExtractQueryKeyword(query)
ExtractQueryKeyword(query) ==
    LET kws == extractKeywords(query)
    IN  IF Len(kws) = 0 THEN <<"q", "u", "e", "r", "y">>
        ELSE LongestFrom(kws, kws[1])

\* tokens of three lengths, two of them stop words, one with a two-byte
\* letter
ChoiceTokens ==
    { <<"t", "h", "e">>, <<"h", "o", "w">>,
      <<"a", "p", "i">>, <<"C", "f", "g">>,
      <<"p", "a", "r", "s", "e">>, <<"T", "o", "k", "e", "n">>,
      <<"e_acute", "a", "b", "c">> }

ChoiceQueries ==
    UNION { { JoinTokens(ts) : ts \in [1..n -> ChoiceTokens] } : n \in 0..MaxQueryTokens }

\* one call of ExtractQueryKeyword
CallExtractQueryKeyword ==
    /\ pc = "idle"
    /\ \E query \in ChoiceQueries :
          fnCall' = [fn |-> "ExtractQueryKeyword", query |-> query,
                     out |-> ExtractQueryKeyword(query)]
    /\ pc' = "done"
    /\ UNCHANGED <<strategy, variant, input, opts, embeddingProvider, queryEmbedding,
                   keywords, idx, scoredFiles, ret, embedCalls, opened, fileLog>>
    /\ UNCHANGED <<factory, sortCall>>

\* file lengths around the two line limits of readFileContent
ReadLengths ==
    {0, EmbeddingLineLimit - 1, EmbeddingLineLimit, EmbeddingLineLimit + 1,
     HybridLineLimit, HybridLineLimit + 1}

\* one call of readFileContent, with either line limit
CallReadFileContent ==
    /\ pc = "idle"
    /\ \E len \in ReadLengths, maxLines \in {EmbeddingLineLimit, HybridLineLimit} :
          LET r == readFileContent(ScoredFile(len, {}), maxLines)
          IN  fnCall' = [fn |-> "readFileContent", len |-> len, maxLines |-> maxLines,
                         out |-> [lines |-> Len(r.content), err |-> r.err]]
    /\ pc' = "done"
    /\ UNCHANGED <<strategy, variant, input, opts, embeddingProvider, queryEmbedding,
                   keywords, idx, scoredFiles, ret, embedCalls, opened, fileLog>>
    /\ UNCHANGED <<factory, sortCall>>

(***************************************************************************)
(* GeminiEmbeddingAdapter.GenerateEmbedding: the retry loop of part_007    *)
(***************************************************************************)
VARIABLES
    gpc,               \* "idle", "loop" (at the head of the for loop), "done"
    gkey,              \* a.APIKey
    gpid,              \* os.Getpid() % 100
    attempt,           \* the loop variable
    lastErr,           \* the variable lastErr
    outcomes,          \* history: what each backend attempt ended in
    nominal,           \* history: backoffMs of every sleep, in order
    slept,             \* history: the duration of every sleep in ms, in order
    gret,              \* what GenerateEmbedding returned
    clock,             \* ms since GenerateEmbedding was called
    latency,           \* ms one backend attempt of this call takes
    ctxDeadline,       \* the deadline of the variable ctx, if it has one
    cancelled,         \* whether the caller cancelled the ctx it passed
    timeouts           \* history: the context.WithTimeout of every retry

geminiVars == <<gpc, gkey, gpid, attempt, lastErr, outcomes, nominal, slept, gret,
                clock, latency, ctxDeadline, cancelled, timeouts>>

maxRetries == 5
initialBackoff == 1000

\* "backoffDuration+30*time.Second", in ms
retryHeadroom == 30000

\* the error texts a backend attempt can produce
Text429 == <<"4", "2", "9">>
TextRate == <<"r", "a", "t", "e">>
TextExhausted == <<"R", "e", "s", "o", "u", "r", "c", "e", " ", "h", "a", "s", " ", "b", "e", "e", "n", " ", "e", "x", "h", "a", "u", "s", "t", "e", "d">>
TextDenied == <<"d", "e", "n", "i", "e", "d">>
ErrorTexts == {Text429, TextExhausted, TextDenied}

\* the texts of context.Canceled and context.DeadlineExceeded
TextCanceled == <<"c", "o", "n", "t", "e", "x", "t", " ", "c", "a", "n", "c", "e", "l", "e", "d">>
TextDeadlineExceeded == <<"c", "o", "n", "t", "e", "x", "t", " ", "d", "e", "a", "d", "l", "i", "n", "e", " ", "e", "x", "c", "e", "e", "d", "e", "d">>

NoError == [attempt |-> -1, stage |-> "none", text |-> <<>>]
AttemptError(k, stage, text) == [attempt |-> k, stage |-> stage, text |-> text]

\* what one pass of the loop body can meet: genai.NewClient fails, or
\* EmbedContent fails, or it answers without an embedding, or with one
AttemptOutcomes ==
    {[stage |-> "client", text |-> x] : x \in ErrorTexts}
    \cup {[stage |-> "embed", text |-> x] : x \in ErrorTexts}
    \cup {[stage |-> "nil embedding", text |-> <<>>], [stage |-> "ok", text |-> <<>>]}

\* the retry test after a failed genai.NewClient
ClientRetryable(text) == Contains(text, Text429) \/ Contains(text, TextRate)

\* the retry test after a failed EmbedContent
EmbedRetryable(text) ==
    \/ Contains(text, Text429)
    \/ Contains(text, TextRate)
    \/ Contains(text, TextExhausted)

\* whether the pass ends in "continue"
Continues(o) ==
    \/ o.stage = "client" /\ ClientRetryable(o.text)
    \/ o.stage = "embed" /\ EmbedRetryable(o.text)
    \/ o.stage = "nil embedding"

\* initialBackoff * (1 << (attempt - 1))
RECURSIVE Pow2(_)
Pow2(n) == IF n = 0 THEN 1 ELSE 2 * Pow2(n - 1)

BackoffMs(k) == initialBackoff * Pow2(k - 1)

\* time.Duration(float64(backoffMs) * (0.8 + 0.4*float64(pid%100)/100.0)) ms
BackoffDuration(k, pid) == (BackoffMs(k) * (8000 + 40 * pid)) \div 10000

GeminiNotReturned == [returned |-> FALSE, ok |-> FALSE, kind |-> "none", wraps |-> NoError]
GeminiError(kind, e) == [returned |-> TRUE, ok |-> FALSE, kind |-> kind, wraps |-> e]
GeminiVector == [returned |-> TRUE, ok |-> TRUE, kind |-> "none", wraps |-> NoError]

\* the caller's ctx has no deadline; a retry's ctx has one
NoDeadline == [set |-> FALSE, at |-> 0]
DeadlineAt(ms) == [set |-> TRUE, at |-> ms]

\* context.WithTimeout(parent, timeout) at time now: a child never outlives
\* its parent
WithTimeout(parent, now, timeout) ==
    IF parent.set /\ parent.at < now + timeout THEN parent
    ELSE DeadlineAt(now + timeout)

\* what an attempt ends in when its ctx is done before the backend answers:
\* genai.NewClient or EmbedContent returns the error of the ctx
ContextOutcomes(text) ==
    {[stage |-> "client", text |-> text], [stage |-> "embed", text |-> text]}

GeminiInit ==
    /\ gpc = "idle"
    /\ gkey = ""
    /\ gpid = 0
    /\ attempt = 0
    /\ lastErr = NoError
    /\ outcomes = <<>>
    /\ nominal = <<>>
    /\ slept = <<>>
    /\ gret = GeminiNotReturned
    /\ clock = 0
    /\ latency = 0
    /\ ctxDeadline = NoDeadline
    /\ cancelled = FALSE
    /\ timeouts = <<>>

PidValues == {0, 99}

\* a fast and a slow backend
LatencyValues == {100, 12000}

\* a loop test that admits one attempt more
MutLoopContinuesInclusive(k) == k <= maxRetries

\* "attempt < maxRetries", the test of the for loop
LoopContinues(k) == k < maxRetries

\* GenerateEmbedding up to the for loop
GeminiGenerateEmbedding ==
    /\ pc = "idle"
    /\ pc' = "gemini"
    /\ \E key \in {"", "key"}, pid \in PidValues, ms \in LatencyValues :
          /\ gkey' = key
          /\ gpid' = pid
          /\ latency' = ms
          /\ IF key = ""
             THEN /\ gret' = GeminiError("API key is required", NoError)
                  /\ gpc' = "done"
             ELSE /\ gret' = gret
                  /\ gpc' = "loop"
    /\ UNCHANGED <<attempt, lastErr, outcomes, nominal, slept, clock, ctxDeadline,
                   cancelled, timeouts>>
    /\ UNCHANGED <<strategy, variant, input, opts, embeddingProvider, queryEmbedding,
                   keywords, idx, scoredFiles, ret, embedCalls, opened, fileLog>>
    /\ UNCHANGED pureVars

\* one pass of the for loop: on a retry the new ctx and the backoff sleep,
\* then the attempt under the ctx in force
GeminiAttempt ==
    /\ gpc = "loop"
    /\ LoopContinues(attempt)
    /\ nominal' = IF attempt > 0 THEN Append(nominal, BackoffMs(attempt)) ELSE nominal
    /\ slept' = IF attempt > 0 THEN Append(slept, BackoffDuration(attempt, gpid)) ELSE slept
    /\ ctxDeadline' = IF attempt > 0
                      THEN WithTimeout(ctxDeadline, clock,
                                       BackoffDuration(attempt, gpid) + retryHeadroom)
                      ELSE ctxDeadline
    /\ timeouts' = IF attempt > 0
                   THEN Append(timeouts,
                               [created |-> clock,
                                backoff |-> BackoffDuration(attempt, gpid),
                                deadline |-> ctxDeadline'.at])
                   ELSE timeouts
    /\ LET start == IF attempt > 0 THEN clock + BackoffDuration(attempt, gpid) ELSE clock
           expires == ctxDeadline'.set /\ ctxDeadline'.at < start + latency
           possible == IF cancelled THEN ContextOutcomes(TextCanceled)
                       ELSE IF expires THEN ContextOutcomes(TextDeadlineExceeded)
                       ELSE AttemptOutcomes
       IN  /\ clock' = IF cancelled THEN start
                       ELSE IF expires
                       THEN (IF ctxDeadline'.at > start THEN ctxDeadline'.at ELSE start)
                       ELSE start + latency
           /\ \E o \in possible :
                 /\ outcomes' = Append(outcomes, o)
                 /\ IF o.stage = "ok"
                    THEN /\ gret' = GeminiVector
                         /\ gpc' = "done"
                         /\ UNCHANGED <<attempt, lastErr>>
                    ELSE /\ lastErr' = AttemptError(attempt, o.stage, o.text)
                         /\ IF Continues(o)
                            THEN /\ attempt' = attempt + 1
                                 /\ UNCHANGED <<gret, gpc>>
                            ELSE /\ gret' = GeminiError("error", lastErr')
                                 /\ gpc' = "done"
                                 /\ attempt' = attempt
    /\ UNCHANGED <<gkey, gpid, latency, cancelled>>
    /\ UNCHANGED rankVars
    /\ UNCHANGED pureVars

\* the caller cancels the ctx it passed while GenerateEmbedding runs
GeminiCancel ==
    /\ gpc = "loop"
    /\ ~ cancelled
    /\ cancelled' = TRUE
    /\ UNCHANGED <<gpc, gkey, gpid, attempt, lastErr, outcomes, nominal, slept, gret,
                   clock, latency, ctxDeadline, timeouts>>
    /\ UNCHANGED rankVars
    /\ UNCHANGED pureVars

\* the return after the for loop
GeminiExhausted ==
    /\ gpc = "loop"
    /\ ~ LoopContinues(attempt)
    /\ gret' = GeminiError("exhausted retries", lastErr)
    /\ gpc' = "done"
    /\ UNCHANGED <<gkey, gpid, attempt, lastErr, outcomes, nominal, slept, clock,
                   latency, ctxDeadline, cancelled, timeouts>>
    /\ UNCHANGED rankVars
    /\ UNCHANGED pureVars

(***************************************************************************)
(* walker.Walk and the receiving loop of main                              *)
(***************************************************************************)
VARIABLES
    wpc,               \* position of the goroutine of walker.Walk
    mpc,               \* position of main
    walk,              \* the entries the directory walk meets, in walk order
    failAt,            \* the walk returns an error on reaching this entry (0: never)
    wpos,              \* index of the entry the walk is at
    skipped,           \* the directories the callback answered fs.SkipDir for
    pending,           \* the Result the goroutine is blocked sending
    sent,              \* history: the Results handed over the channel, in order
    closes,            \* history: the number of close(out) calls
    foundFiles,        \* main's foundFiles
    foundDirs,         \* main's foundDirs
    candidates         \* the CandidateFiles main hands to the ranking strategy

walkVars == <<wpc, mpc, walk, failAt, wpos, skipped, pending, sent, closes,
              foundFiles, foundDirs, candidates>>

\* an entry of the walk: ignored means that one of the ignore patterns
\* matches its path; under is the directory that holds it
Entry(path, isDir, ignored, under) ==
    [path |-> path, isDir |-> isDir, ignored |-> ignored, under |-> under]

FullWalk ==
    << Entry(".", TRUE, FALSE, ""),
       Entry("README.md", FALSE, FALSE, "."),
       Entry("app.log", FALSE, TRUE, "."),
       Entry("node_modules", TRUE, TRUE, "."),
       Entry("node_modules/x.js", FALSE, FALSE, "node_modules"),
       Entry("src", TRUE, FALSE, "."),
       Entry("src/a.go", FALSE, FALSE, "src") >>

\* with and without the root entry "."
Walks == {FullWalk, Tail(FullWalk)}

NoResult == [kind |-> "none"]
\* Result{Path: relPath, IsDir: d.IsDir()}
PathResult(pos, e) ==
    [kind |-> "path", pos |-> pos, Path |-> e.path, IsDir |-> e.isDir, Err |-> FALSE]
\* Result{Err: ...}
ErrResult(pos) ==
    [kind |-> "error", pos |-> pos, Path |-> "", IsDir |-> FALSE, Err |-> TRUE]

WalkInit ==
    /\ wpc = "idle"
    /\ mpc = "start"
    /\ walk = <<>>
    /\ failAt = 0
    /\ wpos = 1
    /\ skipped = {}
    /\ pending = NoResult
    /\ sent = <<>>
    /\ closes = 0
    /\ foundFiles = <<>>
    /\ foundDirs = <<>>
    /\ candidates = <<>>

\* main calls walker.Walk: the channel is made, the goroutine is started, and
\* main enters its range loop
MainWalk ==
    /\ pc = "idle"
    /\ pc' = "main"
    /\ \E w \in Walks :
          /\ walk' = w
          /\ \E k \in 0..(Len(w) + 1) : failAt' = k
    /\ wpc' = "walking"
    /\ mpc' = "receiving"
    /\ UNCHANGED <<wpos, skipped, pending, sent, closes, foundFiles, foundDirs,
                   candidates>>

\* the callback of the walk on the next entry: an entry under a skipped
\* directory is never handed to it; an ignored directory answers SkipDir,
\* an ignored file nil; any other entry reaches the send
WalkVisit ==
    /\ wpc = "walking"
    /\ wpos # failAt
    /\ wpos <= Len(walk)
    /\ LET e == walk[wpos]
       IN  IF e.under \in skipped
           THEN /\ skipped' = IF e.isDir THEN skipped \cup {e.path} ELSE skipped
                /\ wpos' = wpos + 1
                /\ UNCHANGED <<wpc, pending>>
           ELSE IF e.ignored
           THEN /\ skipped' = IF e.isDir THEN skipped \cup {e.path} ELSE skipped
                /\ wpos' = wpos + 1
                /\ UNCHANGED <<wpc, pending>>
           ELSE /\ pending' = PathResult(wpos, e)
                /\ wpc' = "sending"
                /\ UNCHANGED <<wpos, skipped>>
    /\ UNCHANGED <<mpc, walk, failAt, sent, closes, foundFiles, foundDirs, candidates>>

\* the walk returns: with an error the goroutine sends one more Result
WalkReturn ==
    /\ wpc = "walking"
    /\ (wpos = failAt \/ wpos > Len(walk))
    /\ IF wpos = failAt
       THEN /\ pending' = ErrResult(wpos)
            /\ wpc' = "sending error"
       ELSE /\ pending' = pending
            /\ wpc' = "closing"
    /\ UNCHANGED <<mpc, walk, failAt, wpos, skipped, sent, closes, foundFiles,
                   foundDirs, candidates>>

\* the unbuffered channel: the send of the goroutine and the receive of
\* main's range loop meet, and main runs the loop body on the Result
Handoff ==
    /\ wpc \in {"sending", "sending error"}
    /\ mpc = "receiving"
    /\ sent' = Append(sent, pending)
    /\ pending' = NoResult
    /\ IF wpc = "sending"
       THEN /\ wpc' = "walking"
            /\ wpos' = wpos + 1
       ELSE /\ wpc' = "closing"
            /\ wpos' = wpos
    /\ IF pending.Err \/ pending.Path = "."
       THEN UNCHANGED <<foundFiles, foundDirs>>
       ELSE IF pending.IsDir
       THEN /\ foundDirs' = Append(foundDirs, pending.Path)
            /\ foundFiles' = foundFiles
       ELSE /\ foundFiles' = Append(foundFiles, pending.Path)
            /\ foundDirs' = foundDirs
    /\ UNCHANGED <<mpc, walk, failAt, skipped, closes, candidates>>

\* "defer close(out)"
WalkClose ==
    /\ wpc = "closing"
    /\ closes' = closes + 1
    /\ wpc' = "done"
    /\ UNCHANGED <<mpc, walk, failAt, wpos, skipped, pending, sent, foundFiles,
                   foundDirs, candidates>>

\* a range missing its test for the closed channel
MutRangeEndsAtOnce == TRUE

\* "for result := range resultsChan" ends when the channel is closed
RangeEnds == closes > 0

\* main leaves the range loop and builds the options of the ranking
\* strategy: CandidateFiles: foundFiles
MainRank ==
    /\ mpc = "receiving"
    /\ wpc \notin {"sending", "sending error"}
    /\ RangeEnds
    /\ mpc' = "ranking"
    /\ candidates' = foundFiles
    /\ UNCHANGED <<wpc, walk, failAt, wpos, skipped, pending, sent, closes,
                   foundFiles, foundDirs>>

(***************************************************************************)
(* main: the LLM configuration                                             *)
(***************************************************************************)
VARIABLES
    cli,               \* how each LLM flag is given on the command line
    env,               \* which of the LLM_* environment variables are set
    llmConfig,         \* the llm.Config main builds
    providerKind       \* the kind of Provider llm.NewProvider returns for it

configVars == <<cli, env, llmConfig, providerKind>>

Settings == {"APIKey", "Endpoint", "Provider", "ModelName"}

\* "none": the flag is absent; "parsed": it stands before the positional
\* arguments, where flag.Parse reads it; "late=" and "late ": it stands after
\* them, where flag.Parse has stopped, as --flag=value or as --flag value
Forms == {"none", "parsed", "late=", "late "}

\* the value each source holds for a setting
FlagValue(setting) ==
    CASE setting = "APIKey" -> "flag-key"
      [] setting = "Endpoint" -> "flag-endpoint"
      [] setting = "Provider" -> "Gemini"
      [] setting = "ModelName" -> "flag-model"

EnvValue(setting) ==
    CASE setting = "APIKey" -> "env-key"
      [] setting = "Endpoint" -> "env-endpoint"
      [] setting = "Provider" -> "local"
      [] setting = "ModelName" -> "env-model"

\* os.Getenv of the variable of the setting
Getenv(e, setting) == IF e[setting] THEN EnvValue(setting) ELSE ""

\* the value flag.Parse leaves in the flag variable
Parsed(c, setting) == IF c[setting] = "parsed" THEN FlagValue(setting) ELSE ""

\* *llmApiKey: the scan of os.Args knows the --llm-api-key= form only
ResolveAPIKey(c, e) ==
    IF Parsed(c, "APIKey") # "" THEN Parsed(c, "APIKey")
    ELSE IF c["APIKey"] = "late=" THEN FlagValue("APIKey")
    ELSE Getenv(e, "APIKey")

\* *llmProvider and *llmModel: the scan of os.Args knows both forms
ResolveScanned(c, e, setting) ==
    IF Parsed(c, setting) # "" THEN Parsed(c, setting)
    ELSE IF c[setting] \in {"late=", "late "} THEN FlagValue(setting)
    ELSE Getenv(e, setting)

\* *llmEndpoint: main neither scans os.Args for it nor reads the environment
ResolveEndpoint(c, e) == Parsed(c, "Endpoint")

\* the switch of llm.NewProvider on strings.ToLower(cfg.Provider)
NewProvider(name) ==
    LET id == ToLower(Chars(name))
    IN  IF id = Chars("openai") THEN "openai"
        ELSE IF id = <<"a", "n", "t", "h", "r", "o", "p", "i", "c">> THEN "anthropic"
        ELSE IF id = <<"g", "e", "m", "i", "n", "i">> THEN "gemini"
        ELSE IF id = <<"d", "e", "e", "p", "s", "e", "e", "k">> THEN "deepseek"
        ELSE IF id = <<"l", "o", "c", "a", "l">> THEN "local"
        ELSE IF id = <<"u", "n", "i", "f", "i", "e", "d">> THEN "unified"
        ELSE "placeholder"

NoConfig == [APIKey |-> "", Endpoint |-> "", ModelName |-> "", Provider |-> ""]

ConfigInit ==
    /\ cli = [s \in Settings |-> "none"]
    /\ env = [s \in Settings |-> FALSE]
    /\ llmConfig = NoConfig
    /\ providerKind = "none"

\* main from flag.Parse to llm.NewProvider, as far as the LLM settings go
MainConfig ==
    /\ pc = "idle"
    /\ pc' = "configured"
    /\ \E c \in [Settings -> Forms], e \in [Settings -> BOOLEAN] :
          /\ cli' = c
          /\ env' = e
          /\ llmConfig' = [APIKey |-> ResolveAPIKey(c, e),
                           Endpoint |-> ResolveEndpoint(c, e),
                           ModelName |-> ResolveScanned(c, e, "ModelName"),
                           Provider |-> ResolveScanned(c, e, "Provider")]
    /\ providerKind' = NewProvider(llmConfig'.Provider)

(***************************************************************************)
(* llm.GenerateSummaries and output.GenerateMarkdown                       *)
(***************************************************************************)
VARIABLES
    spc,               \* position of main in the summary stage
    sumProvider,       \* the kind of Provider main got from llm.NewProvider
    relevantFiles,     \* the paths of the ranking, in ranking order
    sidx,              \* index of the next path of the loop of GenerateSummaries
    summaries,         \* the map GenerateSummaries fills
    sumRet,            \* what GenerateSummaries returned
    crashed,           \* the program has ended in a run-time panic
    markdown           \* the paths of the "File Summaries" sections, in file order

summaryVars == <<spc, sumProvider, relevantFiles, sidx, summaries, sumRet, crashed,
                 markdown>>

\* the UTF-8 bytes of one character of the modelled alphabet
RuneBytes(c) ==
    IF c = "e_acute" THEN <<195, 169>>
    ELSE IF c = "u_umlaut" THEN <<195, 188>>
    ELSE IF \E k \in 1..Len(UpperLetters) : UpperLetters[k] = c
    THEN <<64 + (CHOOSE k \in 1..Len(UpperLetters) : UpperLetters[k] = c)>>
    ELSE IF \E k \in 1..Len(LowerLetters) : LowerLetters[k] = c
    THEN <<96 + (CHOOSE k \in 1..Len(LowerLetters) : LowerLetters[k] = c)>>
    ELSE IF c = "." THEN <<46>>
    ELSE IF c = "/" THEN <<47>>
    ELSE IF c = "_" THEN <<95>>
    ELSE IF c = "-" THEN <<45>>
    ELSE <<32>>

RECURSIVE Bytes(_)
Bytes(s) == IF s = <<>> THEN <<>> ELSE RuneBytes(s[1]) \o Bytes(Tail(s))

\* the order of Go strings: byte by byte, a proper prefix first
RECURSIVE BytesLess(_, _)
BytesLess(a, b) ==
    IF b = <<>> THEN FALSE
    ELSE IF a = <<>> THEN TRUE
    ELSE IF a[1] # b[1] THEN a[1] < b[1]
    ELSE BytesLess(Tail(a), Tail(b))

StringLess(a, b) == BytesLess(Bytes(Chars(a)), Bytes(Chars(b)))

\* sort.Strings on the keys of a map
RECURSIVE SortStrings(_)
SortStrings(keys) ==
    IF keys = {} THEN <<>>
    ELSE LET least == CHOOSE x \in keys : \A y \in keys \ {x} : StringLess(x, y)
         IN  <<least>> \o SortStrings(keys \ {least})

\* the paths a ranking may return; os.ReadFile fails on gone.go
SummaryPaths ==
    {"config/parser.go", "api/main.go", "README.md", "gone.go", "go", "ete_ete.md"}
UnreadablePaths == {"gone.go"}

MaxRelevant == 2

\* the rankings: up to MaxRelevant distinct paths in any order
SummaryLists ==
    UNION { { c \in [1..n -> SummaryPaths] : \A i, j \in 1..n : i # j => c[i] # c[j] }
            : n \in 0..MaxRelevant }

\* the identifiers handed to llm.NewProvider
SummaryProviderIds == {"", "bogus", "local", "openai"}

\* "[]rune(filePath)[len(filePath)-3:]": len counts bytes, the slice counts
\* runes; the slice expression panics when its low bound is negative or
\* beyond the length of the slice
PlaceholderPanics(filePath) ==
    LET low == ByteLen(filePath) - 3
    IN  low < 0 \/ low > Len(filePath)

\* PlaceholderProvider.GenerateSummary
PlaceholderGenerateSummary(filePath) ==
    IF PlaceholderPanics(filePath) THEN [panic |-> TRUE, summary |-> "", err |-> "nil"]
    ELSE [panic |-> FALSE, summary |-> "placeholder summary", err |-> "nil"]

\* Provider.GenerateSummary of each kind, on the outcome of its request:
\* the local provider falls back to the placeholder on any failure, the
\* remote providers return the error
GenerateSummary(kind, filePath, request) ==
    IF kind = "placeholder" THEN PlaceholderGenerateSummary(filePath)
    ELSE IF kind = "local"
    THEN IF request = "ok"
         THEN [panic |-> FALSE, summary |-> "llm summary", err |-> "nil"]
         ELSE PlaceholderGenerateSummary(filePath)
    ELSE IF request = "ok"
         THEN [panic |-> FALSE, summary |-> "llm summary", err |-> "nil"]
         ELSE [panic |-> FALSE, summary |-> "", err |-> "request failed"]

NoSummaries == [p \in {} |-> ""]
SummariesNotReturned == [returned |-> FALSE, err |-> "nil"]

SummaryInit ==
    /\ spc = "idle"
    /\ sumProvider = "none"
    /\ relevantFiles = <<>>
    /\ sidx = 1
    /\ summaries = NoSummaries
    /\ sumRet = SummariesNotReturned
    /\ crashed = FALSE
    /\ markdown = <<>>

\* main calls llm.NewProvider and then llm.GenerateSummaries with the paths
\* of the ranking
MainSummaries ==
    /\ pc = "idle"
    /\ pc' = "summaries"
    /\ \E id \in SummaryProviderIds : sumProvider' = NewProvider(id)
    /\ \E files \in SummaryLists : relevantFiles' = files
    /\ spc' = "loop"
    /\ UNCHANGED <<sidx, summaries, sumRet, crashed, markdown>>

\* one iteration of the loop of GenerateSummaries
SummarizeFile ==
    /\ spc = "loop"
    /\ sidx <= Len(relevantFiles)
    /\ LET filePath == relevantFiles[sidx]
       IN  IF filePath \in UnreadablePaths
           THEN /\ summaries' = [p \in DOMAIN summaries \cup {filePath} |->
                                    IF p = filePath THEN "Error: Could not read file"
                                    ELSE summaries[p]]
                /\ sidx' = sidx + 1
                /\ UNCHANGED <<spc, crashed>>
           ELSE \E request \in {"ok", "failed"} :
                   LET r == GenerateSummary(sumProvider, Chars(filePath), request)
                   IN  IF r.panic
                       THEN /\ crashed' = TRUE
                            /\ spc' = "crashed"
                            /\ UNCHANGED <<summaries, sidx>>
                       ELSE /\ summaries' =
                                  [p \in DOMAIN summaries \cup {filePath} |->
                                      IF p = filePath
                                      THEN (IF r.err # "nil"
                                            THEN "Error: Failed to generate summary"
                                            ELSE r.summary)
                                      ELSE summaries[p]]
                            /\ sidx' = sidx + 1
                            /\ UNCHANGED <<spc, crashed>>
    /\ UNCHANGED <<sumProvider, relevantFiles, sumRet, markdown>>

\* "return summaries, nil"
SummariesReturn ==
    /\ spc = "loop"
    /\ sidx > Len(relevantFiles)
    /\ sumRet' = [returned |-> TRUE, err |-> "nil"]
    /\ spc' = "markdown"
    /\ UNCHANGED <<sumProvider, relevantFiles, sidx, summaries, crashed, markdown>>

\* output.GenerateMarkdown: one section per key of the map, the keys sorted
GenerateMarkdown ==
    /\ spc = "markdown"
    /\ markdown' = SortStrings(DOMAIN summaries)
    /\ spc' = "done"
    /\ UNCHANGED <<sumProvider, relevantFiles, sidx, summaries, sumRet, crashed>>

(***************************************************************************)
(* main: the choice of the ranking strategy and the fallback               *)
(* (main.go 33-53, 257-276, 330-399; part_003 310-368 has the same shape). *)
(***************************************************************************)
VARIABLES
    rpc,               \* position of main in the ranking stage
    osArgs,            \* os.Args past the program name
    generation,        \* which generation of the relevance package is linked
    embedService,      \* "up" or "down": whether the query embedding is served
    mainQuery,         \* query (args[1])
    mainFiles,         \* foundFiles
    useHybridSearch,   \* *useHybridSearch
    useEmbeddings,     \* *useEmbeddings
    rankCalls,         \* the ranking functions main called, with their options
    relevantFileInfos, \* the ranking main holds
    relevanceErr       \* "nil" or "error"

selectVars == <<rpc, osArgs, generation, embedService, mainQuery, mainFiles,
                useHybridSearch, useEmbeddings, rankCalls, relevantFileInfos,
                relevanceErr>>

\* most arguments before TARGET_PATH, and most after QUERY
MaxParsed == 1
MaxTrailing == 2

\* what may stand before the positional arguments; flag.Parse reads these
ParsedTokens == {"--use-embeddings", "--use-hybrid", "--use-hybrid=false",
                 "--no-hybrid"}

\* what may stand after them; flag.Parse stops at TARGET_PATH
TrailingTokens == {"--use-embeddings", "--use-hybrid", "--no-hybrid"}

RECURSIVE ArgLists(_, _)
ArgLists(tokens, n) ==
    IF n = 0 THEN {<<>>}
    ELSE LET shorter == ArgLists(tokens, n - 1)
         IN shorter \cup {Append(l, t) : l \in shorter, t \in tokens}

\* flag.Parse over the arguments before the first positional one: the two
\* boolean flags as defined at main.go 39-40, an undefined flag ends the
\* program with the usage text
RECURSIVE FlagParse(_, _, _)
FlagParse(parsed, i, values) ==
    IF i > Len(parsed) THEN values
    ELSE IF parsed[i] = "--use-embeddings"
         THEN FlagParse(parsed, i + 1, [values EXCEPT !.useEmbeddings = TRUE])
    ELSE IF parsed[i] = "--use-hybrid"
         THEN FlagParse(parsed, i + 1, [values EXCEPT !.useHybridSearch = TRUE])
    ELSE IF parsed[i] = "--use-hybrid=false"
         THEN FlagParse(parsed, i + 1, [values EXCEPT !.useHybridSearch = FALSE])
    ELSE [values EXCEPT !.ok = FALSE]

FlagDefaults == [ok |-> TRUE, useEmbeddings |-> FALSE, useHybridSearch |-> TRUE]

\* "for _, arg := range os.Args { if arg == "--use-embeddings" ... break }"
ScanUseEmbeddings(args, value) ==
    value \/ \E i \in DOMAIN args : args[i] = "--use-embeddings"

\* the loop over os.Args for --use-hybrid and --no-hybrid; only the latter
\* breaks
RECURSIVE ScanUseHybrid(_, _, _)
ScanUseHybrid(args, i, value) ==
    IF i > Len(args) THEN value
    ELSE IF args[i] = "--use-hybrid" THEN ScanUseHybrid(args, i + 1, TRUE)
    ELSE IF args[i] = "--no-hybrid" THEN FALSE
    ELSE ScanUseHybrid(args, i + 1, value)

\* the if / else-if / else of main.go 341-399
MutPrimaryEmbeddingsFirst(hybrid, embeddings) ==
    IF embeddings THEN "embedding" ELSE IF hybrid THEN "hybrid" ELSE "keyword"

PrimaryStrategy(hybrid, embeddings) ==
    IF hybrid THEN "hybrid" ELSE IF embeddings THEN "embedding" ELSE "keyword"

\* whether a ranking function returns an error: keyword-only when the query
\* has no keyword; embedding-only when the provider or the query embedding
\* fails; hybrid of embedding.go when the query embedding fails; the hybrid
\* of part_007 has no error return
RankingFails(fn, gen, service, q) ==
    CASE fn = "keyword" -> extractKeywords(Chars(q)) = <<>>
      [] fn = "embedding" -> service = "down"
      [] fn = "hybrid" -> gen = "legacy" /\ service = "down"

SelectQueries == {"parse config", "how to"}
SelectCandidates == {<<"config/parser.go", "README.md">>}

NoInfos == [by |-> "none", query |-> "", candidates |-> <<>>]

\* the call of one ranking function with the options main builds for it
RankCall(fn) == [fn |-> fn, query |-> mainQuery, candidates |-> mainFiles]

SelectInit ==
    /\ rpc = "idle"
    /\ osArgs = <<>>
    /\ generation = "none"
    /\ embedService = "up"
    /\ mainQuery = ""
    /\ mainFiles = <<>>
    /\ useHybridSearch = TRUE
    /\ useEmbeddings = FALSE
    /\ rankCalls = <<>>
    /\ relevantFileInfos = NoInfos
    /\ relevanceErr = "nil"

\* main up to the ranking stage: flag.Parse, then the loops over os.Args
MainSelect ==
    /\ pc = "idle"
    /\ pc' = "select"
    /\ \E parsed \in ArgLists(ParsedTokens, MaxParsed),
          trailing \in ArgLists(TrailingTokens, MaxTrailing),
          q \in SelectQueries, c \in SelectCandidates,
          gen \in {"adapter", "legacy"}, service \in {"up", "down"} :
          LET args == parsed \o <<"TARGET_PATH", q>> \o trailing
              flags == FlagParse(parsed, 1, FlagDefaults)
          IN /\ osArgs' = args
             /\ generation' = gen
             /\ embedService' = service
             /\ mainQuery' = q
             /\ mainFiles' = c
             /\ IF flags.ok
                THEN /\ useEmbeddings' = ScanUseEmbeddings(args, flags.useEmbeddings)
                     /\ useHybridSearch' = ScanUseHybrid(args, 1, flags.useHybridSearch)
                     /\ rpc' = "select"
                ELSE /\ UNCHANGED <<useEmbeddings, useHybridSearch>>
                     /\ rpc' = "usage"
    /\ UNCHANGED <<rankCalls, relevantFileInfos, relevanceErr>>

\* the call of the strategy the flags select
RunPrimary ==
    /\ rpc = "select"
    /\ LET fn == PrimaryStrategy(useHybridSearch, useEmbeddings)
           failed == RankingFails(fn, generation, embedService, mainQuery)
       IN /\ rankCalls' = Append(rankCalls, RankCall(fn))
          /\ relevanceErr' = IF failed THEN "error" ELSE "nil"
          /\ relevantFileInfos' =
                IF failed THEN NoInfos
                ELSE [by |-> fn, query |-> mainQuery, candidates |-> mainFiles]
          /\ rpc' = IF ~ failed THEN "ranked"
                    ELSE IF fn = "keyword" THEN "exit" ELSE "fallback"
    /\ UNCHANGED <<osArgs, generation, embedService, mainQuery, mainFiles,
                   useHybridSearch, useEmbeddings>>

\* "Falling back to keyword-based relevance detection..."
RunFallback ==
    /\ rpc = "fallback"
    /\ LET failed == RankingFails("keyword", generation, embedService, mainQuery)
       IN /\ rankCalls' = Append(rankCalls, RankCall("keyword"))
          /\ relevanceErr' = IF failed THEN "error" ELSE "nil"
          /\ relevantFileInfos' =
                IF failed THEN NoInfos
                ELSE [by |-> "keyword", query |-> mainQuery,
                      candidates |-> mainFiles]
          /\ rpc' = IF failed THEN "exit" ELSE "ranked"
    /\ UNCHANGED <<osArgs, generation, embedService, mainQuery, mainFiles,
                   useHybridSearch, useEmbeddings>>

\* the variables of main past the walk
mainVars == <<configVars, summaryVars, selectVars>>

(***************************************************************************)
(* Specification                                                           *)
(***************************************************************************)
vars == <<rankVars, pureVars, geminiVars, walkVars, mainVars>>

Init ==
    /\ RankInit /\ PureInit /\ GeminiInit /\ WalkInit
    /\ ConfigInit /\ SummaryInit /\ SelectInit

\* a caller starts one of the five ranking entry points
Call ==
    /\ pc = "idle"
    /\ \/ \E o \in KeywordInputs : IdentifyRelevantFiles(o)
       \/ \E o \in AdapterEmbeddingInputs : IdentifyRelevantFilesWithEmbeddings(o)
       \/ \E o \in LegacyEmbeddingInputs : LegacyIdentifyRelevantFilesWithEmbeddings(o)
       \/ \E o \in AdapterInputs : IdentifyRelevantFilesWithHybridApproach(o)
       \/ \E o \in LegacyInputs : LegacyIdentifyRelevantFilesWithHybridApproach(o)
    /\ UNCHANGED <<pureVars, geminiVars, walkVars, mainVars>>

\* the variables no ranking entry point touches
notRankVars == <<pureVars, geminiVars, walkVars, mainVars>>

\* the variables a call of one function on its own leaves alone
notPureVars == <<geminiVars, walkVars, mainVars>>

\* the variables the walk and main's loop leave alone
notWalkVars == <<strategy, variant, input, opts, embeddingProvider, queryEmbedding,
                 keywords, idx, scoredFiles, ret, embedCalls, opened, fileLog,
                 pureVars, geminiVars, mainVars>>

\* the variables GenerateEmbedding leaves alone, the ranking ones apart
notGeminiVars == <<walkVars, mainVars>>

\* the variables main past the walk leaves alone, pc apart
notMainVars == <<strategy, variant, input, opts, embeddingProvider, queryEmbedding,
                 keywords, idx, scoredFiles, ret, embedCalls, opened, fileLog,
                 pureVars, geminiVars, walkVars>>

Next ==
    \/ Call
    \/ KeywordScoreCandidate /\ UNCHANGED notRankVars
    \/ KeywordReturn /\ UNCHANGED notRankVars
    \/ EmbeddingsQueryEmbedding /\ UNCHANGED notRankVars
    \/ EmbeddingsVisitFile /\ UNCHANGED notRankVars
    \/ EmbeddingsEmbedFile /\ UNCHANGED notRankVars
    \/ HybridQueryEmbedding /\ UNCHANGED notRankVars
    \/ HybridVisitFile /\ UNCHANGED notRankVars
    \/ HybridEmbedFile /\ UNCHANGED notRankVars
    \/ LegacyHybridQueryEmbedding /\ UNCHANGED notRankVars
    \/ LegacyHybridVisitFile /\ UNCHANGED notRankVars
    \/ LegacyHybridEmbedFile /\ UNCHANGED notRankVars
    \/ EmbeddingReturn /\ UNCHANGED notRankVars
    \/ CallNewEmbeddingProvider /\ UNCHANGED notPureVars
    \/ CallSortFilesByScore /\ UNCHANGED notPureVars
    \/ CallCosineSimilarity /\ UNCHANGED notPureVars
    \/ CallExtractKeywords /\ UNCHANGED notPureVars
    \/ CallScoreFile /\ UNCHANGED notPureVars
    \/ CallReadFileContent /\ UNCHANGED notPureVars
    \/ CallExtractQueryKeyword /\ UNCHANGED notPureVars
    \/ GeminiGenerateEmbedding /\ UNCHANGED notGeminiVars
    \/ GeminiAttempt /\ UNCHANGED notGeminiVars
    \/ GeminiCancel /\ UNCHANGED notGeminiVars
    \/ GeminiExhausted /\ UNCHANGED notGeminiVars
    \/ MainWalk /\ UNCHANGED notWalkVars
    \/ WalkVisit /\ UNCHANGED <<pc, notWalkVars>>
    \/ WalkReturn /\ UNCHANGED <<pc, notWalkVars>>
    \/ Handoff /\ UNCHANGED <<pc, notWalkVars>>
    \/ WalkClose /\ UNCHANGED <<pc, notWalkVars>>
    \/ MainRank /\ UNCHANGED <<pc, notWalkVars>>
    \/ MainSelect /\ UNCHANGED <<configVars, summaryVars, notMainVars>>
    \/ RunPrimary /\ UNCHANGED <<pc, configVars, summaryVars, notMainVars>>
    \/ RunFallback /\ UNCHANGED <<pc, configVars, summaryVars, notMainVars>>
    \/ MainConfig /\ UNCHANGED <<summaryVars, selectVars, notMainVars>>
    \/ MainSummaries /\ UNCHANGED <<configVars, selectVars, notMainVars>>
    \/ SummarizeFile /\ UNCHANGED <<pc, configVars, selectVars, notMainVars>>
    \/ SummariesReturn /\ UNCHANGED <<pc, configVars, selectVars, notMainVars>>
    \/ GenerateMarkdown /\ UNCHANGED <<pc, configVars, selectVars, notMainVars>>

Spec == Init /\ [][Next]_vars

\* GenerateEmbedding alone, every enabled step of its loop eventually taken
GeminiNext ==
    \/ GeminiGenerateEmbedding /\ UNCHANGED notGeminiVars
    \/ GeminiAttempt /\ UNCHANGED notGeminiVars
    \/ GeminiCancel /\ UNCHANGED notGeminiVars
    \/ GeminiExhausted /\ UNCHANGED notGeminiVars

FairSpec ==
    /\ Init
    /\ [][GeminiNext]_vars
    /\ WF_vars(GeminiAttempt /\ UNCHANGED notGeminiVars)
    /\ WF_vars(GeminiExhausted /\ UNCHANGED notGeminiVars)

\* the walk and main's loop alone: the goroutine and main are both
\* scheduled, so a step that stays enabled is eventually taken
WalkNext ==
    \/ MainWalk /\ UNCHANGED notWalkVars
    \/ WalkVisit /\ UNCHANGED <<pc, notWalkVars>>
    \/ WalkReturn /\ UNCHANGED <<pc, notWalkVars>>
    \/ Handoff /\ UNCHANGED <<pc, notWalkVars>>
    \/ WalkClose /\ UNCHANGED <<pc, notWalkVars>>
    \/ MainRank /\ UNCHANGED <<pc, notWalkVars>>

WalkSpec == Init /\ [][WalkNext]_vars /\ WF_vars(WalkNext)

(***************************************************************************)
(* Vocabulary of the properties                                            *)
(***************************************************************************)
Min(a, b) == IF a < b THEN a ELSE b

\* a ranking entry point has returned a list
RankReturned == ret.returned /\ ret.err = "nil"

\* a ranking entry point has returned an error
RankFailed == ret.returned /\ ret.err # "nil"

\* the positions of the loop history whose candidate scored above zero
Qualifying == {k \in DOMAIN fileLog : RPos(fileLog[k].score)}

\* the positions of the loop history that are in the returned list
Returned ==
    {k \in DOMAIN fileLog :
        \E n \in DOMAIN ret.files :
            ret.files[n] = FileInfo(fileLog[k].path, fileLog[k].score)}

NonIncreasing(files) ==
    \A i, j \in DOMAIN files : i < j => ~ RLess(files[i].Score, files[j].Score)

Occurrences(files, x) == Cardinality({k \in DOMAIN files : files[k] = x})

IsPermutation(a, b) ==
    /\ Len(a) = Len(b)
    /\ \A k \in DOMAIN a : Occurrences(a, a[k]) = Occurrences(b, a[k])

FileCalls == {k \in DOMAIN embedCalls : embedCalls[k].kind = "file"}
QueryCalls == {k \in DOMAIN embedCalls : embedCalls[k].kind = "query"}

\* the hybrid entry point could not build its provider
ProviderFailed ==
    /\ variant = "adapter"
    /\ opts.Provider \in {"bogus", "openai", "anthropic"}

\* the query embedding call was made and failed
QueryEmbeddingFailed == QueryCalls # {} /\ queryEmbedding.err # "nil"

\* the score of a candidate ranked without its embedding component
DegradedScore(e) == RAdd(RMul(e.kw, Rat(2, 10)), RMul(e.rel, Rat(1, 10)))

(***************************************************************************)
(* C1                                                                      *)
(***************************************************************************)
\* C1: the hybrid entry point never fails because of the embedding backend.
\* Once it has returned after a failed provider construction or a failed
\* query embedding, the error is nil, the list is ranked, every candidate
\* was scored with embedding component 0 (0.2*keywordScore +
\* 0.1*pathRelevance) and no file embedding call was made.
C1_HybridSurvivesBackendFailure ==
    (strategy = "hybrid" /\ ret.returned /\ (ProviderFailed \/ QueryEmbeddingFailed))
    => /\ ret.err = "nil"
       /\ NonIncreasing(ret.files)
       /\ FileCalls = {}
       /\ \A k \in DOMAIN fileLog :
             fileLog[k].outcome = "scored"
             => /\ fileLog[k].emb = RZero
                /\ fileLog[k].score = DegradedScore(fileLog[k])

(***************************************************************************)
(* C2                                                                      *)
(***************************************************************************)
\* the loop went through the whole candidate list, in order
AllCandidatesVisited ==
    /\ Len(fileLog) = Len(opts.CandidateFiles)
    /\ \A k \in DOMAIN fileLog : fileLog[k].path = opts.CandidateFiles[k]

\* C2: a failure confined to one candidate (stat, open or read error, an
\* oversize file, a failed file embedding) never makes a ranking entry
\* point return an error and never keeps a later candidate from being
\* visited; in the hybrid strategy a candidate whose file embedding failed
\* is still scored, with embeddingScore 0, on keyword and path.
C2_CandidateFailureIsLocal ==
    /\ (ret.returned /\ fileLog # <<>>) => ret.err = "nil"
    /\ RankReturned => AllCandidatesVisited
    /\ strategy = "hybrid"
       => \A k \in DOMAIN fileLog :
             /\ fileLog[k].outcome # "embedding error"
             /\ fileLog[k].outcome = "scored without embedding"
                => /\ fileLog[k].emb = RZero
                   /\ fileLog[k].score = DegradedScore(fileLog[k])

(***************************************************************************)
(* C3                                                                      *)
(***************************************************************************)
\* C3 as stated: the returned list is no longer than the MaxFilesToCheck the
\* caller passed, zero and negative values included, and its length is the
\* smaller of that value and the number of qualifying candidates.
C3_LengthWithinPassedCap ==
    RankReturned
    => /\ Len(ret.files) <= input.MaxFilesToCheck
       /\ Len(ret.files) = Min(input.MaxFilesToCheck, Cardinality(Qualifying))

\* the cap the entry points apply: the caller's value if it is positive,
\* else the default
EffectiveCap ==
    IF input.MaxFilesToCheck > 0 THEN input.MaxFilesToCheck ELSE DefaultMaxFilesToCheck

\* C3 amended: the returned list is no longer than the effective cap (the
\* caller's MaxFilesToCheck if positive, else the default 20), its length is
\* the smaller of that cap and the number of candidates scoring above zero,
\* and every entry is one of those candidates (no padding).
C3_LengthIsEffectiveCap ==
    RankReturned
    => /\ Len(ret.files) <= EffectiveCap
       /\ Len(ret.files) = Min(EffectiveCap, Cardinality(Qualifying))
       /\ \A n \in DOMAIN ret.files :
             \E k \in Qualifying :
                ret.files[n] = FileInfo(fileLog[k].path, fileLog[k].score)

\* C3 witness: a caller passed MaxFilesToCheck = 0 and got two entries back
C3_ZeroCapReturnsFiles ==
    /\ RankReturned
    /\ input.MaxFilesToCheck = 0
    /\ Len(ret.files) = 2

(***************************************************************************)
(* C4                                                                      *)
(***************************************************************************)
\* C4: the returned list is in non-increasing score order, its entries are
\* distinct qualifying candidates, and no qualifying candidate left out
\* scores strictly higher than a returned one; sortFilesByScore returns a
\* permutation of its argument in non-increasing score order.
C4_SortedTopK ==
    /\ RankReturned
       => /\ NonIncreasing(ret.files)
          /\ \A n \in DOMAIN ret.files :
                /\ \E k \in Qualifying :
                      ret.files[n] = FileInfo(fileLog[k].path, fileLog[k].score)
                /\ \A m \in DOMAIN ret.files :
                      m # n => ret.files[m].Path # ret.files[n].Path
          /\ \A k \in Qualifying \ Returned :
                \A n \in DOMAIN ret.files :
                   ~ RLess(ret.files[n].Score, fileLog[k].score)
    /\ sortCall.called
       => /\ IsPermutation(sortCall.arg, sortCall.out)
          /\ NonIncreasing(sortCall.out)

\* C4 witness: keyword-only ranking met the lower-scoring candidate first and,
\* with a cap of one, returned only the higher-scoring second one
C4_TopOneOfTwoOutOfOrder ==
    /\ strategy = "keyword"
    /\ RankReturned
    /\ Len(scoredFiles) = 2
    /\ RLess(scoredFiles[1].Score, scoredFiles[2].Score)
    /\ ret.files = <<scoredFiles[2]>>

(***************************************************************************)
(* C5                                                                      *)
(***************************************************************************)
\* C5: every returned entry has a score above zero and the path of one of the
\* supplied candidates, and no candidate whose computed score is zero or
\* negative is in the returned list.
C5_OnlyPositiveScoresOfCandidates ==
    ret.returned
    => /\ \A n \in DOMAIN ret.files :
             /\ RPos(ret.files[n].Score)
             /\ \E k \in DOMAIN input.CandidateFiles :
                   input.CandidateFiles[k] = ret.files[n].Path
       /\ \A k \in DOMAIN fileLog :
             ~ RPos(fileLog[k].score)
             => \A n \in DOMAIN ret.files : ret.files[n].Path # fileLog[k].path

\* C5 witness: a hybrid run returned a file while it left out a candidate
\* whose negative similarity outweighed its positive keyword score
C5_NegativeSimilarityOutweighs ==
    /\ strategy = "hybrid"
    /\ RankReturned
    /\ ret.files # <<>>
    /\ \E k \in DOMAIN fileLog :
          /\ fileLog[k].outcome = "scored"
          /\ RLess(fileLog[k].emb, RZero)
          /\ RPos(fileLog[k].kw)
          /\ RLess(fileLog[k].score, RZero)

(***************************************************************************)
(* C6                                                                      *)
(***************************************************************************)
\* C6: keyword-only ranking of a query without keywords returns an error and
\* no list and opens no candidate file; with keywords it never returns an
\* error.
C6_NoKeywordsIsTheOnlyError ==
    strategy = "keyword"
    => /\ extractKeywords(Chars(input.Query)) = <<>>
          => /\ opened = {}
             /\ ret.returned => (ret.err # "nil" /\ ret.files = <<>>)
       /\ extractKeywords(Chars(input.Query)) # <<>>
          => (ret.returned => ret.err = "nil")

\* C6 witness: a query of common and short words only, with candidates to
\* rank, was turned down
C6_CommonWordsQueryRejected ==
    /\ strategy = "keyword"
    /\ input.Query = "how to"
    /\ input.CandidateFiles # <<>>
    /\ RankFailed

(***************************************************************************)
(* C7                                                                      *)
(***************************************************************************)
\* C7: embedding-only ranking embeds the query exactly once, before any
\* file; if that call fails it returns an error, no list, and embeds no file;
\* the same failure does not make the hybrid entry point return an error.
C7_QueryEmbeddingFatalOnlyForEmbeddingOnly ==
    /\ strategy = "embedding"
       => /\ \A k \in DOMAIN embedCalls : (embedCalls[k].kind = "query") <=> (k = 1)
          /\ (pc = "loop" \/ RankReturned) => Cardinality(QueryCalls) = 1
          /\ (ret.returned /\ QueryEmbeddingFailed)
             => (ret.err # "nil" /\ ret.files = <<>> /\ FileCalls = {})
    /\ (strategy = "hybrid" /\ ret.returned /\ QueryEmbeddingFailed)
       => ret.err = "nil"

(***************************************************************************)
(* C8                                                                      *)
(***************************************************************************)
\* the adapter each identifier asks for ("local" is the other name of the
\* Ollama adapter; identifiers are matched without regard to case)
RequestedAdapter(provider) ==
    CASE provider \in {"ollama", "local"} -> "ollama"
      [] provider = "Gemini" -> "gemini"
      [] OTHER -> "none"

UnknownIds == {"", "bogus"}

\* C8: NewEmbeddingProvider returns the adapter of the requested provider or
\* an error without an adapter, never another provider's adapter; an unknown
\* identifier gets an error; and an adapter entry point handed an identifier
\* without an adapter issues no embedding call.
C8_FactoryNeverSubstitutes ==
    /\ factory.called
       => /\ \/ factory.err # "nil" /\ factory.adapter = "nil"
             \/ factory.err = "nil" /\ factory.adapter = RequestedAdapter(factory.provider)
          /\ factory.provider \in UnknownIds
             => (factory.err # "nil" /\ factory.adapter = "nil")
    /\ (variant = "adapter" /\ RequestedAdapter(opts.Provider) = "none")
       => embedCalls = <<>>

\* C8 witness: embedding-only ranking was asked for an unknown provider and
\* returned the construction error
C8_UnknownProviderRejected ==
    /\ strategy = "embedding"
    /\ variant = "adapter"
    /\ input.Provider = "bogus"
    /\ RankFailed

(***************************************************************************)
(* C9                                                                      *)
(***************************************************************************)
\* the attempt ended in a rate-limit signal of the backend
RateLimited(o) ==
    /\ o.stage \in {"client", "embed"}
    /\ o.text \in {Text429, TextExhausted}

AllRateLimited == \A k \in DOMAIN outcomes : RateLimited(outcomes[k])

\* C9: one call of GenerateEmbedding makes at most 5 backend attempts; when
\* every attempt ended in a rate-limit signal it returns an error wrapping
\* the error of the last attempt, never a vector; and a call that entered the
\* retry loop returns, whatever the backend answers.
C9_BoundedRetriesWrapLastError ==
    /\ [](Len(outcomes) <= 5)
    /\ []((gret.returned /\ outcomes # <<>> /\ AllRateLimited)
          => /\ ~ gret.ok
             /\ gret.wraps = AttemptError(Len(outcomes) - 1,
                                          outcomes[Len(outcomes)].stage,
                                          outcomes[Len(outcomes)].text))
    /\ ((gpc = "loop") ~> (gpc = "done" /\ gret.returned))

\* C9 witness: five attempts, each rate-limited, and the call gave up
C9_FiveRateLimitedAttempts ==
    /\ gret.returned
    /\ Len(outcomes) = 5
    /\ AllRateLimited
    /\ gret.kind = "exhausted retries"

(***************************************************************************)
(* C10                                                                     *)
(***************************************************************************)
\* C10: the nominal backoff starts at 1 s and doubles on each retry, a call
\* that exhausted its attempts has waited the nominal delays 1 s, 2 s, 4 s,
\* 8 s and 16 s, and nothing is waited before the first attempt.
C10_NominalBackoffUpToSixteenSeconds ==
    /\ \A k \in DOMAIN nominal : nominal[k] = 1000 * Pow2(k - 1)
    /\ Len(outcomes) <= 1 => nominal = <<>>
    /\ (gret.returned /\ gret.kind = "exhausted retries")
       => nominal = <<1000, 2000, 4000, 8000, 16000>>

(***************************************************************************)
(* C11                                                                     *)
(***************************************************************************)
\* C11: every retry of GenerateEmbedding runs under a time bound of its own:
\* the deadline in force for a retry is the time its context was created
\* plus its backoff plus 30 s, whatever deadlines earlier retries created.
C11_FreshTimeoutPerRetry ==
    \A k \in DOMAIN timeouts :
        timeouts[k].deadline = timeouts[k].created + timeouts[k].backoff + 30000

(***************************************************************************)
(* C12                                                                     *)
(***************************************************************************)
\* C12: GenerateEmbedding retries on rate-limit signals only: an attempt that
\* ended neither in a rate-limit signal nor in a vector is the last one, the
\* call has returned an error with it, and no backoff wait followed it.
C12_RetryOnlyOnRateLimit ==
    \A k \in DOMAIN outcomes :
        (~ RateLimited(outcomes[k]) /\ outcomes[k].stage # "ok")
        => /\ k = Len(outcomes)
           /\ gret.returned
           /\ ~ gret.ok
           /\ Len(slept) < k

(***************************************************************************)
(* C13                                                                     *)
(***************************************************************************)
\* C13: a caller can abort a ranking run: the adapter entry points hand their
\* GenerateEmbedding calls a cancellable or deadline-bound context of the
\* run, and once the context of a GenerateEmbedding call is cancelled no
\* further backend attempt is started and no backoff wait is made.
C13_CallerCanAbort ==
    /\ []((variant = "adapter" /\ pc # "idle")
          => RankingContext \in {"cancellable", "deadline"})
    /\ [][cancelled => (outcomes' = outcomes /\ slept' = slept)]_vars

(***************************************************************************)
(* C14                                                                     *)
(***************************************************************************)
\* b = k * a for a positive integer k
IsPositiveMultiple(a, b) ==
    /\ Len(a) = Len(b)
    /\ \E k \in 1..3 : \A i \in DOMAIN a : b[i] = k * a[i]

NonZeroVector(a) == \E i \in DOMAIN a : a[i] # 0

\* C14: cosineSimilarity measures direction only: for a non-zero vector v and
\* a positive scalar k, cosineSimilarity(v, k*v) is 1.
C14_DirectionOnly ==
    (/\ fnCall.fn = "cosineSimilarity"
     /\ NonZeroVector(fnCall.a)
     /\ IsPositiveMultiple(fnCall.a, fnCall.b))
    => fnCall.out = ROne

(***************************************************************************)
(* C15                                                                     *)
(***************************************************************************)
\* C15: cosineSimilarity returns 0 for vectors of different lengths, for a
\* vector of zero magnitude (an empty one included) and for orthogonal
\* vectors; and embedding-only ranking whose query vector has another
\* dimension than the file vectors scores every embedded file 0 and returns
\* an empty list without error.
C15_ZeroWithoutError ==
    /\ fnCall.fn = "cosineSimilarity"
       => ((\/ Len(fnCall.a) # Len(fnCall.b)
            \/ ~ NonZeroVector(fnCall.a)
            \/ ~ NonZeroVector(fnCall.b)
            \/ DotFrom(fnCall.a, fnCall.b, 1) = 0)
           => fnCall.out = RZero)
    /\ (/\ strategy = "embedding"
        /\ QueryCalls # {}
        /\ queryEmbedding.err = "nil"
        /\ queryEmbedding.isNil)
       => /\ \A k \in DOMAIN fileLog :
                fileLog[k].outcome = "scored" => fileLog[k].score = RZero
          /\ ret.returned => (ret.err = "nil" /\ ret.files = <<>>)

\* C15 witness: the backend answered the query without a vector, a file was
\* embedded and scored 0, and the run returned an empty list without error
C15_DimensionMismatchDropsFile ==
    /\ strategy = "embedding"
    /\ queryEmbedding.err = "nil"
    /\ queryEmbedding.isNil
    /\ RankReturned
    /\ ret.files = <<>>
    /\ \E k \in DOMAIN fileLog :
          fileLog[k].outcome = "scored" /\ fileLog[k].score = RZero

(***************************************************************************)
(* C16                                                                     *)
(***************************************************************************)
\* the whitespace-separated tokens of a query, lowercased and without
\* punctuation
RECURSIVE CleanAll(_)
CleanAll(words) ==
    IF words = <<>> THEN <<>>
    ELSE <<StripPunct(words[1])>> \o CleanAll(Tail(words))

CleanTokens(query) == CleanAll(Fields(ToLower(query)))

\* a token of three or more characters that is no stop word
Meaningful(word) == Len(word) >= 3 /\ word \notin commonWords

\* C16: extractKeywords returns a non-empty sequence for a query with at least
\* one token of three or more characters that is no stop word, and an empty
\* sequence for a query of stop words and shorter tokens only.
C16_NonEmptyIffMeaningfulToken ==
    fnCall.fn = "extractKeywords"
    => LET tokens == CleanTokens(fnCall.query)
       IN  (fnCall.out # <<>>) <=> (\E k \in DOMAIN tokens : Meaningful(tokens[k]))

(***************************************************************************)
(* C17                                                                     *)
(***************************************************************************)
Digits == {"0", "1", "2", "3", "4", "5", "6", "7", "8", "9"}

\* a lowercase letter or a digit
LowerAlphanumeric(c) ==
    \/ \E k \in DOMAIN LowerLetters : LowerLetters[k] = c
    \/ c \in Digits \cup TwoByteRunes

\* C17: every token extractKeywords returns is lowercase and alphanumeric, has
\* at least three characters and is no stop word; the tokens come in the
\* order of the query and a repeated token is returned as often as it occurs.
C17_CleanTokensInOrder ==
    fnCall.fn = "extractKeywords"
    => LET out == fnCall.out
           kept(word) == \E k \in DOMAIN out : out[k] = word
       IN  /\ \A k \in DOMAIN out :
                 /\ \A i \in DOMAIN out[k] : LowerAlphanumeric(out[k][i])
                 /\ Len(out[k]) >= 3
                 /\ out[k] \notin commonWords
           /\ out = SelectSeq(CleanTokens(fnCall.query), kept)

(***************************************************************************)
(* C18                                                                     *)
(***************************************************************************)
\* C18: scoreFile scores no line beyond the 1000-line cap: its result is the
\* result on the same file with line 1001 and every later line blanked.
C18_NothingScoredBeyondCap ==
    fnCall.fn = "scoreFile"
    => fnCall.out = scoreFile(ScoredFile(fnCall.len, fnCall.matches \cap (1..1000)),
                              fnCall.keywords)

(***************************************************************************)
(* C19                                                                     *)
(***************************************************************************)
\* 1.0 / (0.1 + n/100.0) = 100 / (10 + n)
DocumentedWeight(n) == Rat(100, 10 + n)

\* the number of entries of the keyword list found in a matching line
EntriesFound(kws) ==
    Cardinality({k \in DOMAIN kws : kws[k] = <<"k", "e", "y">>})

RECURSIVE SumWeights(_)
SumWeights(lineNums) ==
    IF lineNums = {} THEN RZero
    ELSE LET n == CHOOSE x \in lineNums : TRUE
         IN  RAdd(DocumentedWeight(n), SumWeights(lineNums \ {n}))

\* the lines the scanner of scoreFile reads: it leaves the loop after the
\* line that follows the 1000th
ScannedLines(len) == 1..(IF len < 1001 THEN len ELSE 1001)

\* C19: the result of scoreFile is the sum, over the scanned lines n and the
\* entries of the keyword list found in the lowercased line n, of
\* 1.0 / (0.1 + n/100.0), every entry counted on every line it is found on;
\* a match on line 1 weighs more than one on line 1000; no match scores 0.
C19_ScoreIsWeightedSum ==
    fnCall.fn = "scoreFile"
    => /\ fnCall.out.err = "nil"
       /\ fnCall.out.score =
             RMul(RInt(EntriesFound(fnCall.keywords)),
                  SumWeights(fnCall.matches \cap ScannedLines(fnCall.len)))
       /\ fnCall.matches = {} => fnCall.out.score = RZero
       /\ \A n, m \in fnCall.matches :
             n < m => RLess(DocumentedWeight(m), DocumentedWeight(n))

\* C19 witness: a keyword listed twice, found on line 1 and on line 1000
C19_TwoEntriesTwoLines ==
    /\ fnCall.fn = "scoreFile"
    /\ fnCall.matches = {1, 1000}
    /\ Len(fnCall.keywords) = 2
    /\ EntriesFound(fnCall.keywords) = 2
    /\ fnCall.out.score = RMul(RInt(2), RAdd(Rat(100, 11), Rat(100, 1010)))

(***************************************************************************)
(* C20                                                                     *)
(***************************************************************************)
\* the keyword score the hybrid strategy is documented to use: the raw score
\* of scoreFile divided by 10, 0 when the file cannot be scored
DocumentedKeywordScore(path) ==
    LET r == scoreFile(FileAt(path), keywords)
    IN  IF r.err # "nil" THEN RZero ELSE RDiv(r.score, RInt(10))

\* C20: every candidate the hybrid strategy scores gets
\* 0.7 * embeddingScore + 0.2 * keywordScore + 0.1 * pathRelevance, where
\* keywordScore is the raw score of scoreFile divided by 10.
C20_HybridCombination ==
    strategy = "hybrid"
    => \A k \in DOMAIN fileLog :
          LET e == fileLog[k]
          IN  e.outcome \in {"scored", "scored without embedding"}
              => /\ RMul(RInt(10), e.score)
                      = RAdd(RAdd(RMul(RInt(7), e.emb), RMul(RInt(2), e.kw)), e.rel)
                 /\ e.kw = DocumentedKeywordScore(e.path)

(***************************************************************************)
(* C21                                                                     *)
(***************************************************************************)
\* C21: the path component of every candidate the hybrid strategy scores is
\* the result of the query-driven path scorer, lies between 0 and 1, and
\* adds at most 0.1 to the combined score.
C21_PathRelevanceQueryDrivenAndCapped ==
    strategy = "hybrid"
    => \A k \in DOMAIN fileLog :
          LET e == fileLog[k]
          IN  e.outcome \in {"scored", "scored without embedding"}
              => /\ e.rel = getPathRelevanceScoreLegacy(Chars(e.path), Chars(opts.Query))
                 /\ ~ RLess(e.rel, RZero)
                 /\ ~ RLess(ROne, e.rel)
                 /\ ~ RLess(Rat(1, 10), RMul(e.rel, Rat(1, 10)))

(***************************************************************************)
(* C22                                                                     *)
(***************************************************************************)
\* 1 MiB for the embedding-only strategy, 2 MiB for the hybrid strategy
DocumentedSizeLimit == IF strategy = "embedding" THEN 1048576 ELSE 2097152

\* 500 lines for the embedding-only strategy, 800 for the hybrid strategy
DocumentedLineLimit == IF strategy = "embedding" THEN 500 ELSE 800

\* the hybrid run ranks without the embedding component
HybridDegraded ==
    /\ strategy = "hybrid"
    /\ variant = "adapter"
    /\ (embeddingProvider = "nil" \/ queryEmbedding.isNil)

\* C22: a candidate larger than 1 MiB (embedding-only) or 2 MiB (hybrid) is
\* skipped without error: it is not opened, not sent to the backend and not
\* returned, degraded hybrid run included; a candidate of exactly the limit
\* is processed; a call for a file carries at most 500 (embedding-only) or
\* 800 (hybrid) lines, as readFileContent returns at most maxLines lines.
C22_SizeAndLineLimits ==
    /\ strategy \in {"embedding", "hybrid"}
       => /\ \A k \in DOMAIN fileLog :
                LET e == fileLog[k]
                    file == FileAt(e.path)
                IN  /\ (file.stat = "ok" /\ file.size > DocumentedSizeLimit)
                       => /\ e.outcome = "too large"
                          /\ e.path \notin opened
                          /\ \A c \in FileCalls : embedCalls[c].path # e.path
                          /\ \A n \in DOMAIN ret.files : ret.files[n].Path # e.path
                          /\ \A n \in DOMAIN scoredFiles : scoredFiles[n].Path # e.path
                    /\ (file.stat = "ok" /\ file.size = DocumentedSizeLimit)
                       => /\ e.outcome # "too large"
                          /\ e.path \in opened
          /\ RankFailed => fileLog = <<>>
          /\ \A c \in FileCalls : embedCalls[c].lines <= DocumentedLineLimit
    /\ fnCall.fn = "readFileContent"
       => /\ fnCall.out.err = "nil"
          /\ fnCall.out.lines = Min(fnCall.len, fnCall.maxLines)

\* C22 witness: a degraded hybrid run has skipped a candidate of 2 MiB + 1
\* bytes, has scored one of exactly 2 MiB, and has returned
C22_DegradedRunSkipsLargeFile ==
    /\ HybridDegraded
    /\ RankReturned
    /\ \E k, m \in DOMAIN fileLog :
          /\ FileAt(fileLog[k].path).size = 2097152 + 1
          /\ fileLog[k].outcome = "too large"
          /\ FileAt(fileLog[m].path).size = 2097152
          /\ fileLog[m].outcome = "scored"
          /\ fileLog[m].path \in opened

(***************************************************************************)
(* C23                                                                     *)
(***************************************************************************)
\* the score of one path under one query, from the content of that file
\* and the query alone
ScoreOfPath(path, query) == scoreFile(FileAt(path), extractKeywords(Chars(query)))

\* the candidates the range loop has passed
VisitedPaths == {opts.CandidateFiles[k] : k \in 1..(idx - 1)}

\* C23: in keyword-only ranking the (path, score) pairs collected before
\* truncation are those of the visited candidates whose own file scores above
\* zero under the query, each with the score its own content gives: the same
\* for every order of the candidate list and whatever the other candidates
\* are, and the same on every run.
C23_ScoreDependsOnQueryAndFileOnly ==
    strategy = "keyword"
    => /\ {scoredFiles[n] : n \in DOMAIN scoredFiles}
            = { FileInfo(p, ScoreOfPath(p, input.Query).score) :
                   p \in {q \in VisitedPaths :
                             /\ ScoreOfPath(q, input.Query).err = "nil"
                             /\ RPos(ScoreOfPath(q, input.Query).score)} }
       /\ \A k \in DOMAIN fileLog :
             fileLog[k].outcome = "scored"
             => fileLog[k].score = ScoreOfPath(fileLog[k].path, input.Query).score

\* C23 witness: a keyword-only run has returned after scoring two
\* candidates above zero, the second higher than the first
C23_TwoCandidatesBothScored ==
    /\ strategy = "keyword"
    /\ RankReturned
    /\ Len(opts.CandidateFiles) = 2
    /\ Len(fileLog) = 2
    /\ RPos(fileLog[1].score)
    /\ RLess(fileLog[1].score, fileLog[2].score)

(***************************************************************************)
(* C24                                                                     *)
(***************************************************************************)
\* the entry at position k is not reported: a pattern matches it, or it lies
\* under a directory that is not reported
RECURSIVE Unreported(_, _)
Unreported(w, k) ==
    \/ w[k].ignored
    \/ \E j \in 1..(k - 1) : w[j].path = w[k].under /\ w[j].isDir /\ Unreported(w, j)

\* the entries the walk reaches before it returns
Reached(w, stop) == IF stop = 0 THEN Len(w) ELSE stop - 1

\* the complete enumeration of candidate files: the files the walk reaches
\* and reports, in walk order, the root "." left out
RECURSIVE EnumeratedFiles(_, _)
EnumeratedFiles(w, n) ==
    IF n = 0 THEN <<>>
    ELSE LET rest == EnumeratedFiles(w, n - 1)
         IN  IF ~ w[n].isDir /\ w[n].path # "." /\ ~ Unreported(w, n)
             THEN Append(rest, w[n].path)
             ELSE rest

\* no Result is sent twice, the channel is closed at most once and only
\* after the last send, and ranking starts on the closed channel with the
\* complete enumeration
WalkOrdered ==
    /\ \A i, j \in DOMAIN sent : i # j => sent[i].pos # sent[j].pos
    /\ closes <= 1
    /\ closes = 1 => (pending = NoResult /\ wpc = "done")
    /\ mpc = "ranking"
       => /\ closes = 1
          /\ candidates = EnumeratedFiles(walk, Reached(walk, failAt))
          /\ foundFiles = candidates

\* C24: the goroutine of walker.Walk sends each Result at most once and
\* closes the channel exactly once; as main keeps receiving, the goroutine
\* is never blocked forever; main starts ranking only after the close, with
\* every enumerated file (error Results and the root "." left out) as the
\* candidate list.
C24_EnumerationBeforeRanking ==
    /\ [] WalkOrdered
    /\ <> (wpc = "done" /\ closes = 1 /\ mpc = "ranking")

\* C24 witness: ranking has started after a walk that reported the root, two
\* candidate files and an error Result
C24_RankingAfterFailedWalk ==
    /\ mpc = "ranking"
    /\ Len(candidates) = 2
    /\ \E k \in DOMAIN sent : sent[k].Err
    /\ \E k \in DOMAIN sent : sent[k].Path = "."

Documented(setting) ==
    IF cli[setting] # "none" THEN FlagValue(setting)
    ELSE IF env[setting] THEN EnvValue(setting)
    ELSE ""

\* C26: each of the API key, the endpoint, the provider and the model is the
\* flag value when the flag is given, otherwise the value of LLM_API_KEY,
\* LLM_ENDPOINT, LLM_PROVIDER or LLM_MODEL when set; with no provider from
\* either source the placeholder provider is used.
C26_FlagThenEnvironmentThenDefault ==
    pc = "configured"
    => /\ llmConfig.APIKey = Documented("APIKey")
       /\ llmConfig.Endpoint = Documented("Endpoint")
       /\ llmConfig.Provider = Documented("Provider")
       /\ llmConfig.ModelName = Documented("ModelName")
       /\ (cli["Provider"] = "none" /\ ~ env["Provider"]) => providerKind = "placeholder"

(***************************************************************************)
(* C27                                                                     *)
(***************************************************************************)
\* C27: the per-file sections of the Markdown file follow the ranking: they
\* are in the order in which the relevance strategy returned the paths.
C27_SummariesInRankingOrder ==
    spc = "done" => markdown = relevantFiles

(***************************************************************************)
(* C29                                                                     *)
(***************************************************************************)
\* C29: GenerateSummaries always returns, with a nil error and a map whose
\* keys are exactly the paths it was given; a file that cannot be read or
\* summarized gets an "Error: ..." text and the loop goes on.
C29_SummariesForEveryPath ==
    /\ ~ crashed
    /\ sumRet.returned
       => /\ sumRet.err = "nil"
          /\ DOMAIN summaries = {relevantFiles[k] : k \in DOMAIN relevantFiles}

(***************************************************************************)
(* C30                                                                     *)
(***************************************************************************)
\* C30: the placeholder provider and the local provider never fail: no call
\* of GenerateSummary ends the program, and every file that was read has a
\* summary that is no error text, whatever its path.
C30_PlaceholderNeverFails ==
    sumProvider \in {"placeholder", "local"}
    => /\ ~ crashed
       /\ \A p \in DOMAIN summaries :
             p \notin UnreadablePaths
             => summaries[p] \in {"placeholder summary", "llm summary"}

(***************************************************************************)
(* C28                                                                     *)
(***************************************************************************)
\* the strategy the claim names for the flags main ends up with
DocumentedPrimary ==
    IF useHybridSearch THEN "hybrid"
    ELSE IF useEmbeddings THEN "embedding"
    ELSE "keyword"

\* C28: once main is past a ranking call, the first call is the one primary
\* strategy (hybrid if hybrid is enabled, else embedding-only if
\* --use-embeddings, else keyword-only); a second call is made only after
\* the hybrid or embedding-only call returned an error, it is keyword-only
\* with the same query and candidates, and there is never a third; main goes
\* on with the result of the last call; it exits at this stage only when
\* the keyword-only call itself returned an error.
C28_OnePrimaryThenKeywordFallback ==
    rpc \in {"fallback", "ranked", "exit"}
    => /\ Len(rankCalls) \in {1, 2}
       /\ rankCalls[1] = [fn |-> DocumentedPrimary, query |-> mainQuery,
                          candidates |-> mainFiles]
       /\ Len(rankCalls) = 2
          => /\ rankCalls[1].fn \in {"hybrid", "embedding"}
             /\ rankCalls[2] = [rankCalls[1] EXCEPT !.fn = "keyword"]
       /\ rpc = "fallback"
          => /\ Len(rankCalls) = 1
             /\ rankCalls[1].fn \in {"hybrid", "embedding"}
             /\ relevanceErr = "error"
       /\ rpc = "ranked"
          => /\ relevanceErr = "nil"
             /\ relevantFileInfos.by = rankCalls[Len(rankCalls)].fn
             /\ relevantFileInfos.query = mainQuery
             /\ relevantFileInfos.candidates = mainFiles
       /\ rpc = "exit"
          => /\ rankCalls[Len(rankCalls)].fn = "keyword"
             /\ relevanceErr = "error"
             /\ extractKeywords(Chars(mainQuery)) = <<>>

\* the hybrid call failed and main went on with the keyword-only ranking
C28_HybridFailedKeywordRanked ==
    /\ rpc = "ranked"
    /\ Len(rankCalls) = 2
    /\ rankCalls[1].fn = "hybrid"
    /\ relevantFileInfos.by = "keyword"

=============================================================================
